---- MODULE Spec2Model ----
(***************************************************************************)
(* The rendezvous/signaling broker of bhejo (server.js) as a state machine. *)
(*                                                                         *)
(* One action per event-loop callback of the broker: a new connection, an  *)
(* inbound frame of each type, the transport's close, and the expiry      *)
(* sweep.  The broker runs on a single thread, so every callback is one    *)
(* atomic step.                                                            *)
(*                                                                         *)
(* Time is counted in units of 30 s: the sweep's 60000 ms are 2 units.     *)
(* ROOM_EXPIRY is read from the environment; the model runs the broker     *)
(* with ROOM_EXPIRY = 30000 ms = 1 unit.                                   *)
(*                                                                         *)
(* The second part is the file transfer of the client (webrtc.js, app.js)  *)
(* over the data channel: the sender's chunk loop, the channel, and the    *)
(* receiver's reassembly.  Sizes are counted in bytes.  The content of a   *)
(* file is not spelled out: a run of bytes is named by the file it comes   *)
(* from and the offsets where it starts and ends.                          *)
(***************************************************************************)
EXTENDS Integers, Sequences, FiniteSets, TLC

\* ---------------------------------------------------------------- bounds
\* Number of inbound signaling frames the broker handles in one run.
MaxMsgs == 3
\* Last instant (in units of 30 s) the clock reaches.
MaxTime == 4
\* Number of heartbeat ticks in one run.
MaxBeats == 2
\* Number of files the user selects.
MaxFiles == 2
\* Number of chunk frames the channel delivers a second time.
MaxReplays == 1
\* Number of ICE connection state changes of one peer connection.
MaxIceEvents == 6
\* Number of WebSockets the endpoint opens.
MaxSockets == 5

\* ------------------------------------------------------ program constants
ROOM_EXPIRY == 1
MAX_ROOM_SIZE == 2
SweepPeriod == 2
\* The number of characters generateRoomCode draws.
CodeLength == 6
CHUNK_SIZE == 65536
\* The backpressure threshold of sendFileChunks, 1024 * 1024.
BufferLimit == 1048576
headerSize == 13
\* ,"checksum":"<64 hex digits>" in the file-complete frame.
ChecksumBytes == 78
MAX_ICE_RETRIES == 3
\* connect(signalingUrl, retries = 3, delay = 1000)
DefaultRetries == 3
\* The factor of the restart delay, in ms.
IceBackoff == 1000

\* ------------------------------------------------------------ input sets
Sessions == {"s1", "s2", "s3"}
Pair == {"s1", "s2"}
Codes == {"ABCXYZ", "JKLM23"}
Null == "null"
Offers == {"o1", "o2"}
Answers == {"a1"}
Candidates == {"c1"}

\* Sessions are named in the order in which the broker accepts them.
Before(p, s) == <<p, s>> \in {<<"s1", "s2">>, <<"s1", "s3">>, <<"s2", "s3">>}

\* readyState of a ws transport; NONE: the endpoint has not connected yet.
NONE == "NONE"
OPEN == "OPEN"
CLOSING == "CLOSING"
CLOSED == "CLOSED"

VARIABLES
  rooms,        \* the room table: a function from the codes in use to rooms
  readyState,   \* ws.readyState of each session
  currentRoom,  \* the connection closure's currentRoom
  sent,         \* the frames the last callback wrote to each session, in order
  rolesSeen,    \* history: the roles the joined frames written to a session named
  nExpired,     \* history: the room-expired frames written to a session
  now,          \* Date.now(), in units of 30 s
  nextSweep,    \* when the expiry sweep's interval fires next
  nmsg,         \* inbound frames handled so far
  last,         \* the callback that ran last, with its input
  isAlive,      \* ws.isAlive of each session
  nbeat,        \* heartbeat ticks so far
  awaiting,     \* history: the sessions pinged that have sent no pong since
  used,         \* history: the codes of the rooms a second peer attached to
  later         \* history: who sent the offer a room buffers, and the sessions
                \* written a frame that session sent after it

\* The broker.
broker == <<rooms, readyState, currentRoom, sent, rolesSeen, nExpired, now,
            nextSweep, nmsg, last, isAlive, nbeat, awaiting, used, later>>

VARIABLES
  selectedFiles,   \* app.js selectedFiles
  fileIndex,       \* fileIndex of sendFilesNow, 0-based
  phase,           \* what the sender waits for
  offset,          \* offset of sendFileChunks
  chunkIndex,      \* chunkIndex of sendFileChunks
  bufferedAmount,  \* dataChannel.bufferedAmount of the sender
  chan,            \* the frames in the data channel, oldest first
  rcv,             \* the receiver's transfer state
  reading,         \* the Blobs the receiver is converting to ArrayBuffers
  receivedFiles,   \* the receiver's receivedFiles
  nreplay,         \* chunk frames delivered a second time so far
  unchecked,       \* history: bytes of text frames sent since the last chunk
  did,             \* the client callback that ran last, with what it gave out
  dataChannel,     \* dataChannel.readyState
  second           \* the closure of a second call of sendFilesNow

\* The two clients and their data channel.
client == <<selectedFiles, fileIndex, phase, offset, chunkIndex,
            bufferedAmount, chan, rcv, reading, receivedFiles, nreplay,
            unchecked, did, dataChannel, second>>

VARIABLES
  randoms,         \* the values Math.random() returns to generateRoomCode
  generated,       \* the code generateRoomCode returned
  cryptoSubtle,    \* whether the receiver's page has crypto.subtle (HTTPS)
  ice,             \* the closure of oniceconnectionstatechange, and what
                   \* the handler has done since the last connected state
  signaling,       \* the endpoint's signaling handler, the promise of
                   \* createRoom or joinRoom, and what the frames changed
  connection       \* the WebSockets opened by connect() and the retries
                   \* it has scheduled

\* The functions checked apart from the broker and the transfer, and the
\* page's environment.
aside == <<randoms, generated, cryptoSubtle, ice, signaling, connection>>

vars == <<broker, client, aside>>

\* Math.random() returns a multiple of 1 / RandomScale below 1; a value is
\* named by its numerator.
RandomScale == 1024
Randoms == {0, 240, 512, 1023}

\* ---------------------------------------------------------------- helpers
\* No frame written to any session.
Quiet == [s \in Sessions |-> <<>>]

\* ws.send(frame): a frame written to a transport that is not open is not
\* delivered.
Send(ob, rs, s, frame) ==
  IF rs[s] = OPEN THEN [ob EXCEPT ![s] = Append(@, frame)] ELSE ob

\* array.filter(p => p !== ws)
RECURSIVE Without(_, _)
Without(peers, s) ==
  IF peers = <<>> THEN <<>>
  ELSE IF Head(peers) = s THEN Without(Tail(peers), s)
       ELSE <<Head(peers)>> \o Without(Tail(peers), s)

\* Variant of the loop: no peer is skipped.
RECURSIVE SendToEveryPeer(_, _, _, _, _)
SendToEveryPeer(ob, rs, peers, except, frame) ==
  IF peers = <<>> THEN ob
  ELSE SendToEveryPeer(Send(ob, rs, Head(peers), frame), rs, Tail(peers),
                       except, frame)

\* peers.forEach(peer => { if (peer !== except && peer is OPEN) peer.send(frame) })
\* (except = Null: no peer is skipped)
RECURSIVE SendToPeers(_, _, _, _, _)
SendToPeers(ob, rs, peers, except, frame) ==
  IF peers = <<>> THEN ob
  ELSE SendToPeers(IF Head(peers) # except
                     THEN Send(ob, rs, Head(peers), frame) ELSE ob,
                   rs, Tail(peers), except, frame)

RoleOfIndex(index) == IF index = 0 THEN "sender" ELSE "receiver"

JoinedFrame(roomId, pid, role, peerCount) ==
  [type |-> "joined", roomId |-> roomId, peerId |-> pid, role |-> role,
   peerCount |-> peerCount]

\* Variant of the notification: only the peers already in the room are told.
NotifyJoinedOthers(ob, rs, roomId, room, i) ==
  IF Len(room.peers) < 2 THEN ob
  ELSE Send(ob, rs, room.peers[1],
            JoinedFrame(roomId, room.peerIds[room.peers[1]], "sender",
                        Len(room.peers)))

\* The 'joined' notification of handleJoin, sent to every open peer with the
\* role of its position; i is the 1-based position (index = i - 1).
RECURSIVE NotifyJoined(_, _, _, _, _)
NotifyJoined(ob, rs, roomId, room, i) ==
  IF i > Len(room.peers) THEN ob
  ELSE NotifyJoined(
         Send(ob, rs, room.peers[i],
              JoinedFrame(roomId, room.peerIds[room.peers[i]],
                          RoleOfIndex(i - 1), Len(room.peers))),
         rs, roomId, room, i + 1)

NewRoom(s) ==
  [peers |-> <<s>>, createdAt |-> now, peerIds |-> [p \in {s} |-> "peer1"],
   pendingOffer |-> Null, pendingAnswer |-> Null]

SetPeerId(ids, s, pid) ==
  [p \in DOMAIN ids \cup {s} |-> IF p = s THEN pid ELSE ids[p]]

PutRoom(code, room) ==
  [c \in DOMAIN rooms \cup {code} |-> IF c = code THEN room ELSE rooms[c]]

\* Variant of the cleanup: the room stays in the table, without peers.
EmptyRoomKept(tbl, code) == [tbl EXCEPT ![code].peers = <<>>]

\* rooms.delete(code)
DeleteRoom(tbl, code) == [c \in DOMAIN tbl \ {code} |-> tbl[c]]

\* The positions of the frames of one type among those written to s.
FramesOf(ob, s, type) == {i \in DOMAIN ob[s] : ob[s][i].type = type}

\* No offer buffered.
NoLater == [by |-> Null, to |-> {}]

\* The history variables follow the frames the callback wrote.
Log ==
  /\ rolesSeen' = [s \in Sessions |->
                     rolesSeen[s] \cup
                       {sent'[s][i].role : i \in FramesOf(sent', s, "joined")}]
  /\ nExpired' = [s \in Sessions |->
                    nExpired[s] + Cardinality(FramesOf(sent', s, "room-expired"))]
  /\ awaiting' = IF last'.op = "heartbeat" THEN awaiting \cup last'.pinged
                 ELSE IF last'.op = "pong" THEN awaiting \ {last'.s}
                 ELSE awaiting
  /\ used' = LET kept == used \cap DOMAIN rooms' IN
             IF last'.op = "join" /\ last'.data.createNew
               THEN kept \ {last'.newRoomId}
             ELSE IF last'.op = "join"
                       /\ FramesOf(sent', last'.s, "joined") # {}
               THEN kept \cup {last'.data.roomId}
             ELSE kept
  /\ later' =
       [c \in DOMAIN rooms' |->
          IF rooms'[c].pendingOffer = Null THEN NoLater
          ELSE IF last'.op = "signal" /\ last'.data.type = "offer"
                    /\ currentRoom[last'.s] = c /\ sent' = Quiet
            THEN [by |-> last'.s, to |-> {}]
          ELSE IF c \notin DOMAIN later THEN NoLater
          ELSE IF last'.op \in {"signal", "relay"} /\ last'.s = later[c].by
            THEN [later[c] EXCEPT
                    !.to = @ \cup {p \in Sessions : sent'[p] # <<>>}]
          ELSE later[c]]

\* ------------------------------------------------ files, frames and bytes
\* A file the user can select: its size, and the bytes of its file-metadata
\* and file-complete frames (JSON text, as long as the file's name, type
\* and date make them).
File(size, metaBytes, doneBytes) ==
  [size |-> size, metaBytes |-> metaBytes, doneBytes |-> doneBytes]

\* Empty, one byte, one chunk, two chunks with a short one, two chunks.
SmallFiles ==
  {File(0, 100, 90), File(1, 100, 90), File(65536, 100, 90),
   File(100000, 100, 90), File(131072, 100, 90)}

\* Sixteen chunks that fill the buffer to just under the threshold, one
\* chunk, and a file of thirty-two chunks.
BigFiles ==
  {File(1047994, 100, 90), File(65536, 100, 90), File(2097152, 100, 90)}

\* Files of one chunk: a short one and a full one.
QueuedFiles == {File(1, 100, 90), File(65536, 100, 90)}

\* The empty file and a file of one byte.
DroppedFiles == {File(0, 100, 90), File(1, 100, 90)}

\* The queues of one file: a file of one byte, a file of two chunks.
OneFileQueues == {<<File(1, 100, 90)>>, <<File(100000, 100, 90)>>}

\* A file of two chunks, the second one short.
AckedFiles == {File(100000, 100, 90)}

\* The files of no, one and two chunks, and one of thirty-two chunks, which
\* fills the buffer beyond the threshold.
SenderFiles == SmallFiles \cup {File(2097152, 100, 90)}

\* The sequences of 1..MaxFiles files of S.
FileSeqs(S) == UNION {[1..n -> S] : n \in 1..MaxFiles}

\* The bytes from..to-1 of the k-th selected file; file 0 is a run of zeros.
Run(k, from, to) == [file |-> k, from |-> from, to |-> to]
Zeros(n) == Run(0, 0, n)
RunLength(r) == r.to - r.from

Min(a, b) == IF a < b THEN a ELSE b

\* Math.ceil(a / b)
Ceil(a, b) == (a + b - 1) \div b

\* DataView.setUint32 / getUint32: n modulo 2^32, from its 16-bit halves.
Uint32(n) == (n % 65536) + 65536 * ((n \div 65536) % 65536)

\* The receiver with no current file.
NoFile == [name |-> 0, size |-> 0]
NoChunks == [i \in {} |-> Zeros(0)]
\* Variant of the cleanup: receivedChunkIndices is not cleared.
IndicesKept ==
  [currentFile |-> NoFile, chunkMap |-> NoChunks, receivedChunkIndices |-> {0},
   expectedChunkCount |-> 0, bytesTransferred |-> 0, receivedChunks |-> <<>>]

IdleReceiver ==
  [currentFile |-> NoFile, chunkMap |-> NoChunks, receivedChunkIndices |-> {},
   expectedChunkCount |-> 0, bytesTransferred |-> 0, receivedChunks |-> <<>>]

\* A call of sendFilesNow that has not been made.
NoCall == [fileIndex |-> 0, phase |-> "idle", offset |-> 0, chunkIndex |-> 0]

\* ------------------------------------------------------------------- Init
\* The broker listening with no room and no session, and the client with
\* the data channel open and no file selected.
\* The page before a file is selected; no room code generated yet.
ClientStarted ==
  /\ selectedFiles = <<>>
  /\ fileIndex = 0
  /\ phase = "idle"
  /\ offset = 0
  /\ chunkIndex = 0
  /\ bufferedAmount = 0
  /\ chan = <<>>
  /\ rcv = IdleReceiver
  /\ reading = {}
  /\ receivedFiles = <<>>
  /\ nreplay = 0
  /\ unchecked = 0
  /\ did = [op |-> "init"]
  /\ dataChannel = "open"
  /\ second = NoCall
  /\ generated = Null
  /\ ice = [iceRetryCount |-> 0, iceRetryTimeout |-> 0,
            lastIceState |-> Null, events |-> 0, failures |-> 0,
            scheduled |-> <<>>, errors |-> 0, restarts |-> 0]
  /\ signaling = [handleSignalingMessage |-> "original", promise |-> "none",
                  timeout |-> FALSE, roomId |-> Null, role |-> Null,
                  peerConnection |-> 0, pendingOffer |-> Null,
                  pendingIceCandidates |-> 0, offers |-> 0, frames |-> 0,
                  by |-> Null]
  /\ connection = [sockets |-> <<>>, timers |-> [r \in 0..(DefaultRetries - 1) |-> 0],
                   promise |-> "none"]

Started ==
  /\ rooms = [c \in {} |-> Null]
  /\ readyState = [s \in Sessions |-> NONE]
  /\ currentRoom = [s \in Sessions |-> Null]
  /\ sent = Quiet
  /\ rolesSeen = [s \in Sessions |-> {}]
  /\ nExpired = [s \in Sessions |-> 0]
  /\ now = 0
  /\ nextSweep = SweepPeriod
  /\ nmsg = 0
  /\ last = [op |-> "init"]
  /\ isAlive = [s \in Sessions |-> TRUE]
  /\ nbeat = 0
  /\ awaiting = {}
  /\ used = {}
  /\ later = [c \in {} |-> NoLater]
  /\ ClientStarted

\* Two sessions have each created a room and generateRoomCode returned the
\* same code twice: rooms.set replaced the room of s1 by that of s2.
Collided ==
  /\ rooms = [c \in {"ABCXYZ"} |->
               [peers |-> <<"s2">>, createdAt |-> 0,
                peerIds |-> [p \in {"s2"} |-> "peer1"],
                pendingOffer |-> Null, pendingAnswer |-> Null]]
  /\ readyState = [s \in Sessions |-> IF s \in Pair THEN OPEN ELSE NONE]
  /\ currentRoom = [s \in Sessions |-> IF s \in Pair THEN "ABCXYZ" ELSE Null]
  /\ sent = [Quiet EXCEPT !["s2"] =
              <<[type |-> "joined", roomId |-> "ABCXYZ", peerId |-> "peer1",
                 role |-> "sender"]>>]
  /\ rolesSeen = [s \in Sessions |-> IF s \in Pair THEN {"sender"} ELSE {}]
  /\ nExpired = [s \in Sessions |-> 0]
  /\ now = 0
  /\ nextSweep = SweepPeriod
  /\ last = [op |-> "join", s |-> "s2",
             data |-> [type |-> "join", createNew |-> TRUE, roomId |-> Null],
             newRoomId |-> "ABCXYZ"]
  /\ isAlive = [s \in Sessions |-> TRUE]
  /\ nbeat = 0
  /\ awaiting = {}
  /\ used = {}
  /\ later = [c \in {"ABCXYZ"} |-> NoLater]

Init == Started /\ randoms = <<>> /\ cryptoSubtle = TRUE

\* wss.on('connection')
Connect(s) ==
  /\ readyState[s] = NONE
  /\ \A p \in Sessions : Before(p, s) => readyState[p] # NONE
  /\ readyState' = [readyState EXCEPT ![s] = OPEN]
  /\ sent' = [Quiet EXCEPT ![s] = <<[type |-> "connected"]>>]
  /\ isAlive' = [isAlive EXCEPT ![s] = TRUE]
  /\ last' = [op |-> "connection", s |-> s]
  /\ UNCHANGED <<rooms, currentRoom, now, nextSweep, nmsg, nbeat>>
  /\ Log
  /\ UNCHANGED <<client, aside>>

\* ------------------------------------------------------------- handleJoin
\* Variants of the capacity check: the check left out, and > for >=.
RoomNeverFull(room) == FALSE
RoomIsFullOffByOne(room) == Len(room.peers) > MAX_ROOM_SIZE

\* if (room.peers.length >= MAX_ROOM_SIZE)
RoomIsFull(room) == Len(room.peers) >= MAX_ROOM_SIZE

ErrorFrame(message) == [type |-> "error", message |-> message]

\* Variant of the pending-offer block: the slot is not cleared.
PendingOfferKept(room, delivered) == room.pendingOffer

\* room.pendingOffer after the pending-offer block of handleJoin: cleared
\* when the offer was written to the joiner.
PendingOfferAfterJoin(room, delivered) ==
  IF delivered THEN Null ELSE room.pendingOffer

\* The room after ws attached as the second peer.
Attach(room, s) ==
  [room EXCEPT !.peers = Append(@, s), !.peerIds = SetPeerId(@, s, "peer2")]

handleJoin(s, data, newRoomId) ==
  IF data.createNew THEN
    /\ currentRoom' = [currentRoom EXCEPT ![s] = newRoomId]
    /\ rooms' = PutRoom(newRoomId, NewRoom(s))
    /\ sent' = Send(Quiet, readyState, s,
                      [type |-> "joined", roomId |-> newRoomId,
                       peerId |-> "peer1", role |-> "sender"])
  ELSE IF data.roomId # Null /\ data.roomId \in DOMAIN rooms THEN
    LET room == rooms[data.roomId] IN
    IF RoomIsFull(room) THEN
      /\ sent' = Send(Quiet, readyState, s, ErrorFrame("Room is full"))
      /\ UNCHANGED <<currentRoom, rooms>>
    ELSE
      LET joined == Attach(room, s)
          ob1 == NotifyJoined(Quiet, readyState, data.roomId, joined, 1)
          delivered == room.pendingOffer # Null /\ readyState[s] = OPEN
      IN /\ currentRoom' = [currentRoom EXCEPT ![s] = data.roomId]
         /\ rooms' = PutRoom(data.roomId,
                       [joined EXCEPT !.pendingOffer =
                                        PendingOfferAfterJoin(room, delivered)])
         /\ sent' = IF delivered
                        THEN Send(ob1, readyState, s,
                                  [type |-> "offer", offer |-> room.pendingOffer])
                        ELSE ob1
  ELSE
    /\ sent' = Send(Quiet, readyState, s, ErrorFrame("Invalid or expired room"))
    /\ UNCHANGED <<currentRoom, rooms>>

\* -------------------------------------------------------- handleSignaling
\* room.peers.find((p, i) => i === 1): Null when there is no second peer.
ReceiverOf(room) == IF Len(room.peers) >= 2 THEN room.peers[2] ELSE Null
\* room.peers[0]
SenderOf(room) == IF Len(room.peers) >= 1 THEN room.peers[1] ELSE Null

handleSignaling(s, data) ==
  IF currentRoom[s] = Null \/ currentRoom[s] \notin DOMAIN rooms THEN
    /\ sent' = Quiet
       /\ UNCHANGED rooms
  ELSE
    LET code == currentRoom[s]
        room == rooms[code]
    IN
    IF data.type = "offer" THEN
      LET receiver == ReceiverOf(room) IN
      IF receiver # Null /\ readyState[receiver] = OPEN THEN
        /\ sent' = Send(Quiet, readyState, receiver, data)
        /\ UNCHANGED rooms
      ELSE
        /\ rooms' = PutRoom(code, [room EXCEPT !.pendingOffer = data.offer])
        /\ sent' = Quiet
    ELSE IF data.type = "answer" THEN
      LET sender == SenderOf(room) IN
      IF sender # Null /\ readyState[sender] = OPEN THEN
        /\ sent' = Send(Quiet, readyState, sender, data)
        /\ UNCHANGED rooms
      ELSE
        /\ rooms' = PutRoom(code, [room EXCEPT !.pendingAnswer = data.answer])
        /\ sent' = Quiet
    ELSE
      /\ sent' = SendToPeers(Quiet, readyState, room.peers, s, data)
      /\ UNCHANGED rooms

\* ------------------------------------------------------ ws.on('message')
\* Frames are read from a session while its transport is open.
Receives(s) == readyState[s] = OPEN /\ nmsg < MaxMsgs

OnJoin(s, data, newRoomId) ==
  /\ Receives(s)
  /\ handleJoin(s, data, newRoomId)
  /\ nmsg' = nmsg + 1
  /\ last' = [op |-> "join", s |-> s, data |-> data,
              newRoomId |-> IF data.createNew THEN newRoomId ELSE Null]
  /\ UNCHANGED <<readyState, now, nextSweep, isAlive, nbeat>>
  /\ Log
  /\ UNCHANGED <<client, aside>>

OnSignal(s, data) ==
  /\ Receives(s)
  /\ handleSignaling(s, data)
  /\ nmsg' = nmsg + 1
  /\ last' = [op |-> "signal", s |-> s, data |-> data]
  /\ UNCHANGED <<readyState, currentRoom, now, nextSweep, isAlive, nbeat>>
  /\ Log
  /\ UNCHANGED <<client, aside>>

JoinFrames ==
  {[type |-> "join", createNew |-> TRUE, roomId |-> Null]}
    \cup {[type |-> "join", createNew |-> FALSE, roomId |-> r] :
             r \in Codes}

SignalFrames ==
  {[type |-> "offer", offer |-> o] : o \in Offers}
    \cup {[type |-> "answer", answer |-> a] : a \in Answers}
    \cup {[type |-> "ice-candidate", candidate |-> c] : c \in Candidates}

\* -------------------------------------------------- close of a transport
\* The endpoint's close frame arrives, or the socket fails: the transport
\* stops being writable before its 'close' event is dispatched.
TransportClosing(s) ==
  /\ readyState[s] = OPEN
  /\ readyState' = [readyState EXCEPT ![s] = CLOSING]
  /\ last' = [op |-> "closing", s |-> s]
  /\ sent' = Quiet
  /\ UNCHANGED <<rooms, currentRoom, now, nextSweep, nmsg, isAlive, nbeat>>
  /\ Log
  /\ UNCHANGED <<client, aside>>

\* ws.on('close')
OnClose(s) ==
  /\ readyState[s] = CLOSING
  /\ readyState' = [readyState EXCEPT ![s] = CLOSED]
  /\ IF currentRoom[s] # Null /\ currentRoom[s] \in DOMAIN rooms THEN
       LET code == currentRoom[s]
           room == rooms[code]
           rest == Without(room.peers, s)
       IN /\ sent' = SendToPeers(Quiet, readyState, rest, Null,
                                   [type |-> "peer-disconnected"])
          /\ rooms' = IF Len(rest) = 0 THEN DeleteRoom(rooms, code)
                      ELSE PutRoom(code, [room EXCEPT !.peers = rest])
     ELSE /\ sent' = Quiet
       /\ UNCHANGED rooms
  /\ last' = [op |-> "close", s |-> s]
  /\ UNCHANGED <<currentRoom, now, nextSweep, nmsg, isAlive, nbeat>>
  /\ Log
  /\ UNCHANGED <<client, aside>>

\* ----------------------------------------------------------- expiry sweep
\* Variant of the age test: the operands of the subtraction exchanged.
IsExpiredSwapped(room, t) == room.createdAt - t > ROOM_EXPIRY

\* if (now - room.createdAt > ROOM_EXPIRY)
IsExpired(room, t) == t - room.createdAt > ROOM_EXPIRY

\* Variant of the teardown: the frame is written and the session left open.
AfterCloseLeftOpen(rs, p) == rs

\* peer.send(room-expired); peer.close(): the transport's state after it.
AfterClose(rs, p) == [rs EXCEPT ![p] = CLOSING]

\* room.peers.forEach of the sweep; st = [rs: readyState, ob: frames written]
RECURSIVE ExpirePeers(_, _)
ExpirePeers(st, peers) ==
  IF peers = <<>> THEN st
  ELSE LET p == Head(peers) IN
       ExpirePeers(
         IF st.rs[p] = OPEN
           THEN [rs |-> AfterClose(st.rs, p),
                 ob |-> Send(st.ob, st.rs, p, [type |-> "room-expired"])]
           ELSE st,
         Tail(peers))

\* The loop over rooms.entries(), restricted to the expired rooms.
RECURSIVE ExpireRooms(_, _)
ExpireRooms(st, codes) ==
  IF codes = {} THEN st
  ELSE LET c == CHOOSE c \in codes : TRUE IN
       ExpireRooms(ExpirePeers(st, rooms[c].peers), codes \ {c})

Sweep ==
  /\ now = nextSweep
  /\ LET expired == {c \in DOMAIN rooms : IsExpired(rooms[c], now)}
         st == ExpireRooms([rs |-> readyState, ob |-> Quiet], expired)
     IN /\ readyState' = st.rs
        /\ sent' = st.ob
        /\ rooms' = [c \in DOMAIN rooms \ expired |-> rooms[c]]
        /\ last' = [op |-> "sweep",
                     expired |-> [c \in expired |-> rooms[c].peers]]
  /\ nextSweep' = nextSweep + SweepPeriod
  /\ UNCHANGED <<currentRoom, now, nmsg, isAlive, nbeat>>
  /\ Log
  /\ UNCHANGED <<client, aside>>

\* The clock advances; a timer that is due runs before it advances further.
Tick ==
  /\ now < MaxTime
  /\ now < nextSweep
  /\ now' = now + 1
  /\ last' = [op |-> "tick"]
  /\ sent' = Quiet
  /\ UNCHANGED <<rooms, readyState, currentRoom, nextSweep, nmsg, isAlive,
               nbeat>>
  /\ Log
  /\ UNCHANGED <<client, aside>>

\* ------------------------------------- the other cases of ws.on('message')
RelayFrames ==
  {[type |-> "file-metadata", name |-> "f"], [type |-> "chunk", data |-> "b"],
   [type |-> "transfer-complete"], [type |-> "transfer-error"]}

\* A frame whose type no case of the switch names.
UnknownFrames == {[type |-> "bogus"]}

broadcastToRoom(roomId, s, data) ==
  sent' = IF roomId = Null \/ roomId \notin DOMAIN rooms THEN Quiet
          ELSE SendToPeers(Quiet, readyState, rooms[roomId].peers, s, data)

\* case 'file-metadata', 'chunk', 'transfer-complete', 'transfer-error'
OnRelay(s, data) ==
  /\ Receives(s)
  /\ broadcastToRoom(currentRoom[s], s, data)
  /\ nmsg' = nmsg + 1
  /\ last' = [op |-> "relay", s |-> s, data |-> data]
  /\ UNCHANGED <<rooms, readyState, currentRoom, now, nextSweep, isAlive, nbeat>>
  /\ Log
  /\ UNCHANGED <<client, aside>>

\* case 'ping'
OnPing(s) ==
  /\ Receives(s)
  /\ sent' = Send(Quiet, readyState, s, [type |-> "pong"])
  /\ nmsg' = nmsg + 1
  /\ last' = [op |-> "ping", s |-> s]
  /\ UNCHANGED <<rooms, readyState, currentRoom, now, nextSweep, isAlive, nbeat>>
  /\ Log
  /\ UNCHANGED <<client, aside>>

\* default
OnUnknown(s, data) ==
  /\ Receives(s)
  /\ sent' = Quiet
  /\ nmsg' = nmsg + 1
  /\ last' = [op |-> "unknown", s |-> s, data |-> data]
  /\ UNCHANGED <<rooms, readyState, currentRoom, now, nextSweep, isAlive, nbeat>>
  /\ Log
  /\ UNCHANGED <<client, aside>>

\* Messages that are not an object with a type: text that is not JSON, and
\* the JSON texts null, {} and 42.
Texts == {"{not json", "null", "{}", "42"}

\* JSON.parse(message): what the text parses to, or the exception.
Parse(text) ==
  CASE text = "null" -> "null"
    [] text = "{}" -> "object"
    [] text = "42" -> "number"
    [] OTHER -> "SyntaxError"

\* The try block throws: JSON.parse does, or data.type is read from null.
Throws(text) == Parse(text) \in {"SyntaxError", "null"}

\* A message without a type: the catch block when the try block threw, the
\* default case (data.type is undefined) otherwise.
OnText(s, text) ==
  /\ Receives(s)
  /\ sent' = IF Throws(text)
               THEN Send(Quiet, readyState, s,
                         ErrorFrame("Invalid message format"))
               ELSE Quiet
  /\ nmsg' = nmsg + 1
  /\ last' = [op |-> "text", s |-> s, text |-> text]
  /\ UNCHANGED <<rooms, readyState, currentRoom, now, nextSweep, isAlive, nbeat>>
  /\ Log
  /\ UNCHANGED <<client, aside>>

\* {"type":"join"} and {"type":"offer"}: the fields of the frame are missing,
\* and read as undefined (Null here: both are falsy).
BareJoinFrames == {[type |-> "join", createNew |-> FALSE, roomId |-> Null]}
BareSignalFrames == {[type |-> "offer", offer |-> Null]}

\* ------------------------------------------------- the client's joinRoom
\* A text is the sequence of its characters; the room codes, spelled.
Spell ==
  [c \in Codes |-> IF c = "ABCXYZ" THEN <<"A", "B", "C", "X", "Y", "Z">>
                   ELSE <<"J", "K", "L", "M", "2", "3">>]

\* The letters of the texts, in both cases.
Lowers == <<"a", "b", "c", "x", "y", "z", "j", "k", "l", "m">>
Uppers == <<"A", "B", "C", "X", "Y", "Z", "J", "K", "L", "M">>

ToUpperChar(ch) ==
  IF \E i \in DOMAIN Lowers : Lowers[i] = ch
    THEN Uppers[CHOOSE i \in DOMAIN Lowers : Lowers[i] = ch] ELSE ch

ToLowerChar(ch) ==
  IF \E i \in DOMAIN Uppers : Uppers[i] = ch
    THEN Lowers[CHOOSE i \in DOMAIN Uppers : Uppers[i] = ch] ELSE ch

\* Variant of the canonicalization: the text is sent as typed.
AsTyped(text) == text

\* String.prototype.toUpperCase
toUpperCase(text) == [i \in DOMAIN text |-> ToUpperChar(text[i])]

\* The code typed with the characters at the positions of mask in lower case.
Typed(text, mask) ==
  [i \in DOMAIN text |-> IF i \in mask THEN ToLowerChar(text[i]) ELSE text[i]]

Masks == {{}, {1, 2, 3, 4, 5, 6}, {2, 5}}

\* What the user types into the join field.
TypedInputs == {Typed(Spell[c], m) : c \in Codes, m \in Masks}

\* The string a text spells; a text that spells no code of Codes is a string
\* that is no key of the room table.
Unlisted == "??????"
NameOf(text) ==
  IF \E c \in Codes : Spell[c] = text
    THEN CHOOSE c \in Codes : Spell[c] = text ELSE Unlisted

\* WebRTCManager.joinRoom(roomId): the join frame it sends.
joinRoom(typed) ==
  [type |-> "join", roomId |-> NameOf(toUpperCase(typed)), createNew |-> FALSE]

\* -------------------------------------------------------------- heartbeat
\* wss.clients: the transports accepted whose 'close' has not been emitted.
Clients == {s \in Sessions : readyState[s] \in {OPEN, CLOSING}}

\* Variant of the pong handler: the flag is left as it is.
AliveAfterPongKept(alive, s) == alive

\* ws.on('pong'): ws.isAlive = true
AliveAfterPong(alive, s) == [alive EXCEPT ![s] = TRUE]

\* Variant of the tick: the flag is not lowered when the ping is sent.
AliveAfterPingKept(alive, s) == alive

\* ws.isAlive = false, before ws.ping()
AliveAfterPing(alive, s) == [alive EXCEPT ![s] = FALSE]

\* ws.terminate(): the socket is destroyed, 'close' is emitted afterwards.
AfterTerminate(rs, s) == [rs EXCEPT ![s] = CLOSING]

\* wss.clients.forEach of the heartbeat; st = [rs, alive, ob, dead, pinged]
RECURSIVE BeatClients(_, _)
BeatClients(st, clients) ==
  IF clients = {} THEN st
  ELSE LET s == CHOOSE s \in clients : TRUE IN
       BeatClients(
         IF st.alive[s] = FALSE
           THEN [st EXCEPT !.rs = AfterTerminate(@, s),
                           !.dead = @ \cup {s}]
           ELSE [st EXCEPT !.alive = AliveAfterPing(@, s),
                           !.ob = Send(@, st.rs, s, [type |-> "ping"]),
                           !.pinged = @ \cup {s}],
         clients \ {s})

\* The heartbeat interval fires (every 30000 ms).
Heartbeat ==
  /\ nbeat < MaxBeats
  /\ LET st == BeatClients([rs |-> readyState, alive |-> isAlive, ob |-> Quiet,
                            dead |-> {}, pinged |-> {}], Clients)
     IN /\ readyState' = st.rs
        /\ isAlive' = st.alive
        /\ sent' = st.ob
        /\ last' = [op |-> "heartbeat", terminated |-> st.dead,
                     pinged |-> st.pinged]
  /\ nbeat' = nbeat + 1
  /\ UNCHANGED <<rooms, currentRoom, now, nextSweep, nmsg>>
  /\ Log
  /\ UNCHANGED <<client, aside>>

\* A pong control frame arrives from the endpoint of s.
OnPong(s) ==
  /\ readyState[s] = OPEN
  /\ isAlive' = AliveAfterPong(isAlive, s)
  /\ sent' = Quiet
  /\ last' = [op |-> "pong", s |-> s]
  /\ UNCHANGED <<rooms, readyState, currentRoom, now, nextSweep, nmsg, nbeat>>
  /\ Log
  /\ UNCHANGED <<client, aside>>

\* ------------------------------------------------ the sender (webrtc.js)
\* The frames of the data channel.  A text frame carries its length; a chunk
\* frame is the 13-byte header followed by the payload.
MetaFrame(files, k) ==
  [type |-> "file-metadata", name |-> k, size |-> files[k].size,
   bytes |-> files[k].metaBytes]

ChunkFrame(index, total, data) ==
  [type |-> "chunk", index |-> Uint32(index), totalChunks |-> Uint32(total),
   dataLength |-> Uint32(RunLength(data)), data |-> data]

\* Variant of the file-complete frame: a checksum in every case.
CompleteFrameWithChecksum(files, k, total, checksum) ==
  [type |-> "file-complete", fileName |-> k, totalChunks |-> total,
   checksum |-> TRUE, bytes |-> files[k].doneBytes + ChecksumBytes]

CompleteFrame(files, k, total, checksum) ==
  [type |-> "file-complete", fileName |-> k, totalChunks |-> total,
   checksum |-> checksum,
   bytes |-> files[k].doneBytes + IF checksum THEN ChecksumBytes ELSE 0]

\* The bytes a frame adds to bufferedAmount.
FrameBytes(f) ==
  IF f.type = "chunk" THEN headerSize + RunLength(f.data) ELSE f.bytes

\* file.slice(from, from + CHUNK_SIZE) of the k-th file
Slice(k, from) ==
  LET size == selectedFiles[k].size IN
  Run(k, Min(from, size), Min(from + CHUNK_SIZE, size))

\* Variant of the backpressure test: the sender never waits.
NeverCongested(amount) == FALSE

\* if (this.dataChannel.bufferedAmount > 1024 * 1024)
Congested(amount) == amount > BufferLimit

\* The calls of sendFilesNow: the first, and one made before the first is
\* through.  Each call has its own fileIndex and runs its own sendFileChunks.
Calls == {1, 2}

\* The closure of call n: fileIndex, phase, offset and chunkIndex are those
\* of the first call.
Call(n) ==
  IF n = 1 THEN [fileIndex |-> fileIndex, phase |-> phase, offset |-> offset,
                 chunkIndex |-> chunkIndex]
  ELSE second

SetCall(n, c) ==
  IF n = 1 THEN /\ fileIndex' = c.fileIndex
                /\ phase' = c.phase
                /\ offset' = c.offset
                /\ chunkIndex' = c.chunkIndex
                /\ UNCHANGED second
  ELSE /\ second' = c
       /\ UNCHANGED <<fileIndex, phase, offset, chunkIndex>>

\* readyState !== 'open'.  isConnected follows the data channel (onopen,
\* onclose) while the signaling socket stays up.
NotOpen == dataChannel # "open"

\* sendFile(file) for the k-th file of files, in call n with closure c, the
\* data channel open: the metadata frame is sent and sendFileChunks starts
\* reading the first slice.
sendFile(n, c, files, k) ==
  /\ chan' = Append(chan, MetaFrame(files, k))
  /\ bufferedAmount' = bufferedAmount + files[k].metaBytes
  /\ unchecked' = unchecked + files[k].metaBytes
  /\ SetCall(n, [c EXCEPT !.offset = 0, !.chunkIndex = 0, !.phase = "read"])

\* sendFilesNow() as call n, with files selected and the data channel open.
sendFilesNow(n, files) == sendFile(n, NoCall, files, 1)

\* addFiles(files), the first files the user selects: sendFilesNow() when
\* the data channel is open, startTransfer() (no frame) otherwise.
addFiles(files) ==
  /\ phase = "idle"
  /\ selectedFiles = <<>>
  /\ selectedFiles' = files
  /\ IF NotOpen
       THEN UNCHANGED <<fileIndex, phase, offset, chunkIndex, second, chan,
                        bufferedAmount, unchecked>>
       ELSE sendFilesNow(1, files)
  /\ did' = [op |-> "addFiles"]
  /\ UNCHANGED <<rcv, reading, receivedFiles, nreplay, dataChannel>>
  /\ UNCHANGED <<broker, aside>>

\* peerConnection.onconnectionstatechange with state 'connected' while the
\* data channel is open, and the timer it sets: onDataChannelOpen() in
\* sender mode, which calls sendFilesNow() when files are selected.
ConnectionConnected ==
  /\ ~NotOpen
  /\ selectedFiles # <<>>
  /\ second.phase = "idle"
  /\ sendFilesNow(2, selectedFiles)
  /\ did' = [op |-> "connected"]
  /\ UNCHANGED <<selectedFiles, rcv, reading, receivedFiles, nreplay,
                 dataChannel>>
  /\ UNCHANGED <<broker, aside>>

\* The catch of sendNextFile after sendFile rejected: the error is shown,
\* and the next file tried after 100 ms when there is one.
AfterReject(c) ==
  [c EXCEPT !.fileIndex = @ + 1,
            !.phase = IF c.fileIndex + 1 < Len(selectedFiles)
                        THEN "pause" ELSE "failed"]

\* reader.onload of sendFileChunks in call n; secure: crypto.subtle is
\* available.
ReaderOnload(n, secure) ==
  /\ Call(n).phase = "read"
  /\ LET c == Call(n)
         k == c.fileIndex + 1
         file == selectedFiles[k]
         total == Ceil(file.size, CHUNK_SIZE)
         chunk == ChunkFrame(c.chunkIndex, total, Slice(k, c.offset))
         done == CompleteFrame(selectedFiles, k, total, FALSE)
         sentOne == [c EXCEPT !.offset = @ + CHUNK_SIZE, !.chunkIndex = @ + 1]
     IN IF NotOpen THEN
          /\ SetCall(n, AfterReject(c))
          /\ did' = [op |-> "reject", call |-> n]
          /\ UNCHANGED <<chan, bufferedAmount, unchecked>>
        ELSE IF Congested(bufferedAmount) THEN
          /\ SetCall(n, [c EXCEPT !.phase = "wait"])
          /\ did' = [op |-> "defer", call |-> n]
          /\ UNCHANGED <<chan, bufferedAmount, unchecked>>
        ELSE
          /\ IF c.offset + CHUNK_SIZE < file.size THEN
               /\ chan' = Append(chan, chunk)
               /\ bufferedAmount' = bufferedAmount + FrameBytes(chunk)
               /\ unchecked' = 0
               /\ SetCall(n, [sentOne EXCEPT !.phase = "read"])
             ELSE IF secure THEN
               /\ chan' = Append(chan, chunk)
               /\ bufferedAmount' = bufferedAmount + FrameBytes(chunk)
               /\ unchecked' = 0
               /\ SetCall(n, [sentOne EXCEPT !.phase = "hash"])
             ELSE
               /\ chan' = chan \o <<chunk, done>>
               /\ bufferedAmount' =
                    bufferedAmount + FrameBytes(chunk) + FrameBytes(done)
               /\ unchecked' = FrameBytes(done)
               /\ SetCall(n, [sentOne EXCEPT !.phase = "pause",
                                             !.fileIndex = @ + 1])
          /\ did' = [op |-> "chunk", call |-> n, frame |-> chunk,
                     before |-> bufferedAmount,
                     hash |-> IF c.offset + CHUNK_SIZE < file.size THEN "none"
                              ELSE IF secure THEN "started"
                              ELSE "unavailable"]
  /\ UNCHANGED <<selectedFiles, rcv, reading, receivedFiles, nreplay,
                 dataChannel>>
  /\ UNCHANGED <<broker, aside>>

\* The 100 ms timer of the backpressure branch, in call n.
RetryTimer(n) ==
  /\ Call(n).phase = "wait"
  /\ LET c == Call(n) IN
     SetCall(n, [c EXCEPT !.phase =
                   IF c.offset < selectedFiles[c.fileIndex + 1].size
                     THEN "read" ELSE "stuck"])
  /\ did' = [op |-> "retry", call |-> n]
  /\ UNCHANGED <<selectedFiles, bufferedAmount, chan, rcv, reading,
                 receivedFiles, nreplay, unchecked, dataChannel>>
  /\ UNCHANGED <<broker, aside>>

\* calculateFileChecksum settles in call n: then (ok) or catch.  send()
\* throws when the data channel is not open: thrown in then, the exception
\* reaches the catch, whose send() throws again, and the promise of sendFile
\* is neither resolved nor rejected.
HashSettled(n, ok) ==
  /\ Call(n).phase = "hash"
  /\ LET c == Call(n)
         k == c.fileIndex + 1
         done == CompleteFrame(selectedFiles, k,
                               Ceil(selectedFiles[k].size, CHUNK_SIZE), ok)
     IN IF NotOpen THEN
          /\ SetCall(n, [c EXCEPT !.phase = "hung"])
          /\ did' = [op |-> "unhandled", call |-> n]
          /\ UNCHANGED <<chan, bufferedAmount, unchecked>>
        ELSE
          /\ chan' = Append(chan, done)
          /\ bufferedAmount' = bufferedAmount + FrameBytes(done)
          /\ unchecked' = unchecked + FrameBytes(done)
          /\ SetCall(n, [c EXCEPT !.phase = "pause", !.fileIndex = @ + 1])
          /\ did' = [op |-> "complete", call |-> n,
                     hash |-> IF ok THEN "succeeded" ELSE "failed"]
  /\ UNCHANGED <<selectedFiles, rcv, reading, receivedFiles, nreplay,
                 dataChannel>>
  /\ UNCHANGED <<broker, aside>>

\* sendNextFile of call n, 100 ms after the file before was sent or failed.
sendNextFile(n) ==
  /\ Call(n).phase = "pause"
  /\ LET c == Call(n) IN
     IF c.fileIndex >= Len(selectedFiles) THEN
       /\ SetCall(n, [c EXCEPT !.phase = "done"])
       /\ did' = [op |-> "next", call |-> n]
       /\ UNCHANGED <<chan, bufferedAmount, unchecked>>
     ELSE IF NotOpen THEN
       /\ SetCall(n, [c EXCEPT !.phase = "lost"])
       /\ did' = [op |-> "lost", call |-> n]
       /\ UNCHANGED <<chan, bufferedAmount, unchecked>>
     ELSE
       /\ sendFile(n, c, selectedFiles, c.fileIndex + 1)
       /\ did' = [op |-> "next", call |-> n]
  /\ UNCHANGED <<selectedFiles, rcv, reading, receivedFiles, nreplay,
                 dataChannel>>
  /\ UNCHANGED <<broker, aside>>

\* dataChannel.onclose
ChannelClose ==
  /\ dataChannel = "open"
  /\ dataChannel' = "closed"
  /\ did' = [op |-> "close"]
  /\ UNCHANGED <<selectedFiles, fileIndex, phase, offset, chunkIndex,
                 bufferedAmount, chan, rcv, reading, receivedFiles, nreplay,
                 unchecked, second>>
  /\ UNCHANGED <<broker, aside>>

\* The data channel has transmitted what the sender had buffered.
Transmit ==
  /\ bufferedAmount > 0
  /\ bufferedAmount' = 0
  /\ did' = [op |-> "transmit"]
  /\ UNCHANGED <<selectedFiles, fileIndex, phase, offset, chunkIndex, chan,
                 rcv, reading, receivedFiles, nreplay, unchecked, dataChannel,
                 second>>
  /\ UNCHANGED <<broker, aside>>

\* ---------------------------------------------- the receiver (webrtc.js)
handleFileMetadata(r, f) ==
  [currentFile |-> [name |-> f.name, size |-> f.size],
   chunkMap |-> NoChunks, receivedChunkIndices |-> {},
   expectedChunkCount |-> Ceil(f.size, CHUNK_SIZE), bytesTransferred |-> 0,
   receivedChunks |-> <<>>]

\* arrayBuffer.slice(13, 13 + dataLength)
ChunkData(f) ==
  [f.data EXCEPT !.to = Min(f.data.to, f.data.from + f.dataLength)]

\* Variant of the duplicate detection: every chunk is stored.
NeverReceived(r, index) == FALSE

\* this.receivedChunkIndices.has(index)
AlreadyReceived(r, index) == index \in r.receivedChunkIndices

\* chunkMap.set(index, chunkBuffer)
SetChunk(map, index, data) ==
  [i \in DOMAIN map \cup {index} |-> IF i = index THEN data ELSE map[i]]

\* Variant of the index validation: every index passes.
AnyIndex(f) == FALSE

\* if (index < 0 || index >= totalChunks); a Uint32 is not below 0
InvalidIndex(f) == f.index >= f.totalChunks

\* addReceivedChunk(chunk): a binary message without the chunk header.
addReceivedChunk(r, chunk) ==
  IF r.currentFile = NoFile THEN r
  ELSE [r EXCEPT !.receivedChunks = Append(@, chunk),
                 !.bytesTransferred = @ + RunLength(chunk)]

handleChunkWithSequence(r, f) ==
  IF r.currentFile = NoFile THEN r
  ELSE IF InvalidIndex(f) THEN r
  ELSE IF AlreadyReceived(r, f.index) THEN r
  ELSE [r EXCEPT !.chunkMap = SetChunk(@, f.index, ChunkData(f)),
                 !.receivedChunkIndices = @ \cup {f.index},
                 !.bytesTransferred = @ + RunLength(ChunkData(f))]

\* Variant of the acknowledgment: none is sent.
NoChunkAck(index) == <<>>

\* sendChunkAck(chunkIndex): the frames it sends.
sendChunkAck(index) ==
  IF NotOpen THEN <<>> ELSE <<[type |-> "chunk-ack", chunkIndex |-> index]>>

\* The chunk-ack frames handleChunkWithSequence sends.
ChunkAcks(r, f) ==
  IF r.currentFile = NoFile THEN <<>>
  ELSE IF InvalidIndex(f) THEN <<>>
  ELSE sendChunkAck(f.index)

\* completeData?.totalChunks || this.expectedChunkCount
expectedChunks(r, f) ==
  IF f.totalChunks # 0 THEN f.totalChunks ELSE r.expectedChunkCount

\* if (receivedChunkCount < expectedChunks) of handleFileComplete, which
\* calls onError.
Incomplete(r, f) ==
  LET receivedChunkCount ==
        IF DOMAIN r.chunkMap # {} THEN Cardinality(DOMAIN r.chunkMap)
        ELSE Len(r.receivedChunks)
  IN receivedChunkCount < expectedChunks(r, f)

\* The placeholder for a chunk that is missing at index i of expected.
Placeholder(r, i, expected) ==
  IF i = expected - 1
    THEN IF r.currentFile.size % CHUNK_SIZE # 0
           THEN Zeros(r.currentFile.size % CHUNK_SIZE) ELSE Zeros(CHUNK_SIZE)
    ELSE Zeros(CHUNK_SIZE)

\* chunksToReassemble of handleFileComplete: from chunkMap by index, or the
\* receivedChunks of the legacy protocol when chunkMap is empty.
Reassemble(r, f) ==
  LET expected == IF f.totalChunks # 0 THEN f.totalChunks
                  ELSE r.expectedChunkCount
  IN IF DOMAIN r.chunkMap # {}
       THEN [i \in 1..expected |->
               IF (i - 1) \in DOMAIN r.chunkMap THEN r.chunkMap[i - 1]
               ELSE Placeholder(r, i - 1, expected)]
       ELSE r.receivedChunks

\* The bytes of a blob in one form: no empty run, adjacent runs joined.
\* SHA-256 is taken to tell any two byte strings apart.
RECURSIVE Joined(_, _)
Joined(acc, blob) ==
  IF blob = <<>> THEN acc
  ELSE LET h == Head(blob)
           n == Len(acc)
       IN IF RunLength(h) = 0 THEN Joined(acc, Tail(blob))
          ELSE IF n > 0 /\ acc[n].file = h.file
                    /\ (h.file = 0 \/ acc[n].to = h.from)
            THEN Joined([acc EXCEPT ![n].to = @ + RunLength(h)], Tail(blob))
          ELSE Joined(Append(acc, IF h.file = 0 THEN Zeros(RunLength(h))
                                  ELSE h),
                      Tail(blob))

\* crypto.subtle.digest('SHA-256', arrayBuffer)
digest(blob) == Joined(<<>>, blob)

\* completeData.checksum: calculateFileChecksum(file) of the file sent.
ChecksumOf(f) ==
  digest(<<Run(f.fileName, 0, selectedFiles[f.fileName].size)>>)

\* verifyFileIntegrity(blob, expectedChecksum)
verifyFileIntegrity(blob, expectedChecksum) ==
  IF ~cryptoSubtle THEN TRUE ELSE digest(blob) = expectedChecksum

\* The integrity block of handleFileComplete: what it logs.
IntegrityCheck(r, f) ==
  IF ~f.checksum THEN "none"
  ELSE IF ~cryptoSubtle THEN "skipped"
  ELSE IF verifyFileIntegrity(Reassemble(r, f), ChecksumOf(f))
    THEN "verified"
  ELSE "failed"

\* Variant of the download: a file that fails the check is withheld.
DownloadIfVerified(files, entry, verdict) ==
  IF verdict = "failed" THEN files ELSE Append(files, entry)

\* The download link is clicked and the file pushed to receivedFiles,
\* whatever the integrity check will log.
Download(files, entry, verdict) == Append(files, entry)

\* What the message handler gives out besides the file: the chunk-ack
\* frames it sends, whether it calls onError, and what the integrity check
\* logs.
Outcome(r, f) ==
  [acks |-> IF f.type = "chunk" THEN ChunkAcks(r, f) ELSE <<>>,
   error |-> f.type = "file-complete" /\ r.currentFile # NoFile
               /\ Incomplete(r, f),
   integrity |-> IF f.type = "file-complete" /\ r.currentFile # NoFile
                   THEN IntegrityCheck(r, f) ELSE "none"]

\* The parts of a message handler: the receiver's state and receivedFiles.
handleDataChannelMessage(f) ==
  IF f.type = "file-metadata" THEN
    /\ rcv' = handleFileMetadata(rcv, f)
    /\ UNCHANGED receivedFiles
  ELSE IF f.type = "chunk" THEN
    /\ rcv' = handleChunkWithSequence(rcv, f)
    /\ UNCHANGED receivedFiles
  ELSE IF f.type = "binary" THEN
    /\ rcv' = addReceivedChunk(rcv, f.data)
    /\ UNCHANGED receivedFiles
  ELSE IF rcv.currentFile = NoFile THEN
    UNCHANGED <<rcv, receivedFiles>>
  ELSE
    /\ receivedFiles' =
         Download(receivedFiles,
                  [name |-> rcv.currentFile.name,
                   size |-> rcv.currentFile.size,
                   blob |-> Reassemble(rcv, f)],
                  IntegrityCheck(rcv, f))
    /\ rcv' = [IdleReceiver EXCEPT !.bytesTransferred = rcv.bytesTransferred]

\* dataChannel.onmessage with a string or an ArrayBuffer: the oldest frame
\* of the channel leaves the sender's buffer and is handled.
Deliver ==
  /\ chan # <<>>
  /\ handleDataChannelMessage(Head(chan))
  /\ chan' = Tail(chan)
  /\ bufferedAmount' = bufferedAmount - FrameBytes(Head(chan))
  /\ did' = [op |-> "message", frame |-> Head(chan),
              out |-> Outcome(rcv, Head(chan))]
  /\ UNCHANGED <<selectedFiles, fileIndex, phase, offset, chunkIndex, reading,
                 nreplay, unchecked, dataChannel, second>>
  /\ UNCHANGED <<broker, aside>>

\* A binary message that does not start with the type marker 0x01 or is
\* shorter than the 13-byte header, as a peer of the legacy protocol sends it.
LegacyFrames == {[type |-> "binary", data |-> Run(1, 0, 1)]}

\* dataChannel.onmessage with such an ArrayBuffer; it is no frame of this
\* sender's queue.  At most MaxFiles of them are stored for one file.
DeliverLegacy(f) ==
  /\ Len(rcv.receivedChunks) < MaxFiles
  /\ handleDataChannelMessage(f)
  /\ did' = [op |-> "message", frame |-> f, out |-> Outcome(rcv, f)]
  /\ UNCHANGED <<selectedFiles, fileIndex, phase, offset, chunkIndex,
                 bufferedAmount, chan, reading, nreplay, unchecked,
                 dataChannel, second>>
  /\ UNCHANGED <<broker, aside>>

\* dataChannel.onmessage with a Blob (binaryType 'blob'): the chunk frame is
\* handed to a FileReader and handled when this has loaded it.
DeliverBlob ==
  /\ chan # <<>>
  /\ Head(chan).type = "chunk"
  /\ reading' = reading \cup {Head(chan)}
  /\ chan' = Tail(chan)
  /\ bufferedAmount' = bufferedAmount - FrameBytes(Head(chan))
  /\ did' = [op |-> "blob", frame |-> Head(chan)]
  /\ UNCHANGED <<selectedFiles, fileIndex, phase, offset, chunkIndex, rcv,
                 receivedFiles, nreplay, unchecked, dataChannel, second>>
  /\ UNCHANGED <<broker, aside>>

\* reader.onload of the Blob conversion.
BlobLoaded(f) ==
  /\ f \in reading
  /\ reading' = reading \ {f}
  /\ handleDataChannelMessage(f)
  /\ did' = [op |-> "message", frame |-> f, out |-> Outcome(rcv, f)]
  /\ UNCHANGED <<selectedFiles, fileIndex, phase, offset, chunkIndex,
                 bufferedAmount, chan, nreplay, unchecked, dataChannel,
                 second>>
  /\ UNCHANGED <<broker, aside>>

\* The positions of chan after which a copy of a chunk frame still arrives
\* before the file-complete of its file.
BeforeComplete(q) ==
  {j \in 0..Len(q) : \A i \in 1..j : q[i].type = "chunk"}

InsertAt(q, j, f) == SubSeq(q, 1, j) \o <<f>> \o SubSeq(q, j + 1, Len(q))

\* A channel that delivers a chunk frame twice: the oldest frame is handled
\* and a copy of it arrives again, before the file-complete of its file.
DeliverTwice(j) ==
  /\ nreplay < MaxReplays
  /\ chan # <<>>
  /\ Head(chan).type = "chunk"
  /\ j \in BeforeComplete(Tail(chan))
  /\ handleDataChannelMessage(Head(chan))
  /\ chan' = InsertAt(Tail(chan), j, Head(chan))
  /\ nreplay' = nreplay + 1
  /\ did' = [op |-> "message", frame |-> Head(chan),
              out |-> Outcome(rcv, Head(chan))]
  /\ UNCHANGED <<selectedFiles, fileIndex, phase, offset, chunkIndex,
                 bufferedAmount, reading, unchecked, dataChannel, second>>
  /\ UNCHANGED <<broker, aside>>

\* ------------------------------------------------------- generateRoomCode
\* Variant of the alphabet: every letter and every digit.
charsWithConfusables ==
  <<"A", "B", "C", "D", "E", "F", "G", "H", "I", "J", "K", "L", "M", "N", "O",
    "P", "Q", "R", "S", "T", "U", "V", "W", "X", "Y", "Z", "0", "1", "2", "3",
    "4", "5", "6", "7", "8", "9">>

\* const chars = 'ABCDEFGHJKLMNPQRSTUVWXYZ23456789'
chars ==
  <<"A", "B", "C", "D", "E", "F", "G", "H", "J", "K", "L", "M", "N", "P", "Q",
    "R", "S", "T", "U", "V", "W", "X", "Y", "Z", "2", "3", "4", "5", "6", "7",
    "8", "9">>

\* str.charAt(i), as a text: empty when i is no position of str.
charAt(str, i) == IF i + 1 \in DOMAIN str THEN <<str[i + 1]>> ELSE <<>>

\* Math.floor(Math.random() * n) for the random value r / RandomScale
FloorOfRandomTimes(r, n) == (r * n) \div RandomScale

\* The loop of generateRoomCode from iteration i on; rs: the random values.
RECURSIVE CodeFrom(_, _, _)
CodeFrom(i, sofar, rs) ==
  IF i >= CodeLength THEN sofar
  ELSE CodeFrom(i + 1,
                sofar \o charAt(chars, FloorOfRandomTimes(rs[i + 1], Len(chars))),
                rs)

generateRoomCode(rs) == CodeFrom(0, <<>>, rs)

\* The broker generates a code from the random values drawn.
Generate ==
  /\ generated = Null
  /\ randoms # <<>>
  /\ generated' = generateRoomCode(randoms)
  /\ UNCHANGED <<randoms, cryptoSubtle, ice, signaling, connection>>
  /\ UNCHANGED <<broker, client>>

\* ------------------------------------------ oniceconnectionstatechange
IceStates ==
  {"new", "checking", "connected", "completed", "disconnected", "failed",
   "closed"}

\* Variant of the retry test: a restart after every failure.
RetryAlways(count) == TRUE

\* if (iceRetryCount <= MAX_ICE_RETRIES)
RetryAllowed(count) == count <= MAX_ICE_RETRIES

\* peerConnection.oniceconnectionstatechange with iceConnectionState =
\* iceState.  iceRetryTimeout is the delay of the pending timer, 0 when none
\* is pending.  failures, scheduled and errors record the failures, the delays
\* of the restarts scheduled and the calls of onError since the last
\* connected or completed state.
IceConnectionStateChange(iceState) ==
  /\ ice.events < MaxIceEvents
  /\ ice' =
       LET seen == [ice EXCEPT !.lastIceState = iceState, !.events = @ + 1]
           count == ice.iceRetryCount + 1
       IN IF iceState = "failed" THEN
            IF RetryAllowed(count)
              THEN [seen EXCEPT !.iceRetryCount = count,
                                !.iceRetryTimeout = IceBackoff * count,
                                !.failures = @ + 1,
                                !.scheduled = Append(@, IceBackoff * count)]
              ELSE [seen EXCEPT !.iceRetryCount = count,
                                !.iceRetryTimeout = 0,
                                !.failures = @ + 1,
                                !.errors = @ + 1]
          ELSE IF iceState \in {"connected", "completed"} THEN
            [seen EXCEPT !.iceRetryCount = 0, !.iceRetryTimeout = 0,
                         !.failures = 0, !.scheduled = <<>>, !.errors = 0]
          ELSE seen
  /\ UNCHANGED <<randoms, generated, cryptoSubtle, signaling, connection>>
  /\ UNCHANGED <<broker, client>>

\* The timer of a scheduled restart fires: peerConnection.restartIce().
IceRestartTimer ==
  /\ ice.iceRetryTimeout # 0
  /\ ice' = [ice EXCEPT !.iceRetryTimeout = 0, !.restarts = @ + 1]
  /\ UNCHANGED <<randoms, generated, cryptoSubtle, signaling, connection>>
  /\ UNCHANGED <<broker, client>>

\* ------------------------------------------------ createRoom, joinRoom
\* The frames the broker writes to an endpoint.
EndpointFrames ==
  {[type |-> "joined", role |-> r, roomId |-> "ABCXYZ"] :
     r \in {"sender", "receiver"}}
    \cup {[type |-> "error"], [type |-> "offer", offer |-> "o1"],
          [type |-> "ice-candidate"], [type |-> "peer-disconnected"]}

\* createRoom(): the join frame is sent, the timer set and the temporary
\* handler installed.  peerConnection counts the calls of
\* setupPeerConnection.
createRoom ==
  /\ signaling.promise = "none"
  /\ signaling' = [signaling EXCEPT !.handleSignalingMessage = "createRoom",
                                    !.promise = "pending", !.timeout = TRUE]
  /\ UNCHANGED <<randoms, generated, cryptoSubtle, ice, connection>>
  /\ UNCHANGED <<broker, client>>

\* joinRoom(roomId): the join frame is sent, the timer set and tempHandler
\* installed.
JoinRoomCall(roomId) ==
  /\ signaling.promise = "none"
  /\ signaling' = [signaling EXCEPT !.handleSignalingMessage = "joinRoom",
                                    !.promise = "pending", !.timeout = TRUE,
                                    !.roomId = roomId]
  /\ UNCHANGED <<randoms, generated, cryptoSubtle, ice, connection>>
  /\ UNCHANGED <<broker, client>>

\* The timer of createRoom or joinRoom: reject(new Error('Timeout ...')).
JoinTimeout ==
  /\ signaling.timeout
  /\ signaling' = [signaling EXCEPT !.timeout = FALSE,
                                    !.promise = IF @ = "pending"
                                                  THEN "rejected" ELSE @]
  /\ UNCHANGED <<randoms, generated, cryptoSubtle, ice, connection>>
  /\ UNCHANGED <<broker, client>>

\* handleSignalingMessage of the class, for the frames of EndpointFrames:
\* an offer is kept while there is no peer connection and handled
\* otherwise; a joined frame is only logged.
originalHandler(s, data) ==
  LET o == [s EXCEPT !.by = "original"] IN
  IF data.type = "offer" THEN
    IF s.peerConnection = 0 THEN [o EXCEPT !.pendingOffer = data.offer]
    ELSE [o EXCEPT !.offers = @ + 1]
  ELSE o

\* The handler createRoom installs.
createRoomHandler(s, data) ==
  IF data.type = "joined" /\ data.role = "sender" THEN
    [s EXCEPT !.timeout = FALSE, !.roomId = data.roomId, !.role = data.role,
              !.peerConnection = @ + 1,
              !.handleSignalingMessage = "original",
              !.promise = IF @ = "pending" THEN "resolved" ELSE @,
              !.by = "temporary"]
  ELSE IF data.type = "error" THEN
    [s EXCEPT !.timeout = FALSE, !.handleSignalingMessage = "original",
              !.promise = IF @ = "pending" THEN "rejected" ELSE @,
              !.by = "temporary"]
  ELSE originalHandler(s, data)

\* tempHandler of joinRoom.
tempHandler(s, data) ==
  IF data.type = "joined" /\ data.role = "receiver" THEN
    [s EXCEPT !.timeout = FALSE, !.role = data.role,
              !.peerConnection = @ + 1,
              !.handleSignalingMessage = "original",
              !.promise = IF @ = "pending" THEN "resolved" ELSE @,
              !.by = "temporary"]
  ELSE IF data.type = "error" THEN
    [s EXCEPT !.timeout = FALSE, !.handleSignalingMessage = "original",
              !.promise = IF @ = "pending" THEN "rejected" ELSE @,
              !.by = "temporary"]
  ELSE IF data.type = "offer" THEN
    [s EXCEPT !.pendingOffer = data.offer, !.by = "temporary"]
  ELSE IF data.type = "ice-candidate" THEN
    [s EXCEPT !.pendingIceCandidates = @ + 1, !.by = "temporary"]
  ELSE originalHandler(s, data)

\* ws.onmessage: this.handleSignalingMessage(JSON.parse(event.data))
SignalingMessage(data) ==
  /\ signaling.frames < MaxMsgs
  /\ signaling' =
       LET s == [signaling EXCEPT !.frames = @ + 1] IN
       IF signaling.handleSignalingMessage = "createRoom"
         THEN createRoomHandler(s, data)
       ELSE IF signaling.handleSignalingMessage = "joinRoom"
         THEN tempHandler(s, data)
       ELSE originalHandler(s, data)
  /\ UNCHANGED <<randoms, generated, cryptoSubtle, ice, connection>>
  /\ UNCHANGED <<broker, client>>

\* ---------------------------------------------------------- connect(url)
\* connect(signalingUrl, retries): a WebSocket is created, this.ws is the
\* last one of sockets; timeout: its 10 s timer is pending.
NewSocket(c, retries) ==
  [c EXCEPT !.sockets = Append(@, [retries |-> retries,
                                   readyState |-> "CONNECTING",
                                   timeout |-> TRUE])]

\* if (retries > 0) setTimeout(() => this.connect(url, retries - 1, ...))
ScheduleRetry(c, retries) ==
  IF retries > 0 THEN [c EXCEPT !.timers[retries - 1] = @ + 1] ELSE c

\* reject(...) when no retry is left
RejectUnlessRetry(c, retries) ==
  IF retries > 0 \/ c.promise # "pending" THEN c
  ELSE [c EXCEPT !.promise = "rejected"]

\* The page calls connect(url).
ConnectCall ==
  /\ connection.sockets = <<>>
  /\ connection' = [NewSocket(connection, DefaultRetries)
                      EXCEPT !.promise = "pending"]
  /\ UNCHANGED <<randoms, generated, cryptoSubtle, ice, signaling>>
  /\ UNCHANGED <<broker, client>>

\* The timer of a scheduled retry fires: this.connect(url, retries - 1).
ConnectRetry(r) ==
  /\ connection.timers[r] > 0
  /\ Len(connection.sockets) < MaxSockets
  /\ connection' = NewSocket([connection EXCEPT !.timers[r] = @ - 1], r)
  /\ UNCHANGED <<randoms, generated, cryptoSubtle, ice, signaling>>
  /\ UNCHANGED <<broker, client>>

\* ws.onopen of socket i
SocketOpen(i) ==
  /\ connection.sockets[i].readyState = "CONNECTING"
  /\ connection' =
       [connection EXCEPT !.sockets[i].readyState = "OPEN",
                          !.sockets[i].timeout = FALSE,
                          !.promise = IF @ = "pending" THEN "resolved" ELSE @]
  /\ UNCHANGED <<randoms, generated, cryptoSubtle, ice, signaling>>
  /\ UNCHANGED <<broker, client>>

\* The 10 s timer of socket i: it tests and closes this.ws, the socket
\* created last.
SocketTimeout(i) ==
  /\ connection.sockets[i].timeout
  /\ LET ws == Len(connection.sockets)
         retries == connection.sockets[i].retries
         fired == [connection EXCEPT !.sockets[i].timeout = FALSE]
     IN connection' =
          IF connection.sockets[ws].readyState = "OPEN" THEN fired
          ELSE RejectUnlessRetry(
                 ScheduleRetry(
                   [fired EXCEPT !.sockets[ws].readyState =
                                   IF @ = "CLOSED" THEN @ ELSE "CLOSING"],
                   retries),
                 retries)
  /\ UNCHANGED <<randoms, generated, cryptoSubtle, ice, signaling>>
  /\ UNCHANGED <<broker, client>>

\* ws.onerror of socket i: the connection has failed; FAILED is the socket
\* between its error event and the close event that follows.
SocketError(i) ==
  /\ connection.sockets[i].readyState \in {"CONNECTING", "OPEN", "CLOSING"}
  /\ LET retries == connection.sockets[i].retries IN
     connection' =
       RejectUnlessRetry(
         ScheduleRetry(
           [connection EXCEPT !.sockets[i].timeout = FALSE,
                              !.sockets[i].readyState = "FAILED"],
           retries),
         retries)
  /\ UNCHANGED <<randoms, generated, cryptoSubtle, ice, signaling>>
  /\ UNCHANGED <<broker, client>>

\* ws.onclose of socket i; clean: wasClean, or code 1000 or 1001.
SocketClose(i, clean) ==
  /\ connection.sockets[i].readyState \in
       {"CONNECTING", "OPEN", "CLOSING", "FAILED"}
  /\ connection.sockets[i].readyState = "FAILED" => ~clean
  /\ LET closed == [connection EXCEPT !.sockets[i].timeout = FALSE,
                                      !.sockets[i].readyState = "CLOSED"]
     IN connection' =
          IF clean THEN closed
          ELSE ScheduleRetry(closed, connection.sockets[i].retries)
  /\ UNCHANGED <<randoms, generated, cryptoSubtle, ice, signaling>>
  /\ UNCHANGED <<broker, client>>

\* The callbacks of the sessions in S.
SessionStep(S) ==
  \/ \E s \in S : Connect(s)
  \/ \E s \in S, data \in JoinFrames, c \in Codes : OnJoin(s, data, c)
  \/ \E s \in S, data \in SignalFrames : OnSignal(s, data)
  \/ \E s \in S : TransportClosing(s)
  \/ \E s \in S : OnClose(s)

\* Two endpoints, the clock and the expiry sweep.
Next == SessionStep(Pair) \/ Sweep \/ Tick

Spec == Init /\ [][Next]_vars

\* Three endpoints within one sweep period (the clock stands still).
NextThree == SessionStep(Sessions)

SpecThree == Init /\ [][NextThree]_vars

\* The frames of every kind, from two endpoints within one sweep period.
WireStep(S) ==
  \/ \E s \in S, data \in RelayFrames : OnRelay(s, data)
  \/ \E s \in S : OnPing(s)
  \/ \E s \in S, data \in UnknownFrames : OnUnknown(s, data)
  \/ \E s \in S, text \in Texts : OnText(s, text)
  \/ \E s \in S, data \in BareJoinFrames : OnJoin(s, data, Null)
  \/ \E s \in S, data \in BareSignalFrames : OnSignal(s, data)
  \/ \E s \in S, typed \in TypedInputs : OnJoin(s, joinRoom(typed), Null)

NextWire == SessionStep(Pair) \/ WireStep(Pair)

SpecWire == Init /\ [][NextWire]_vars

\* Two endpoints and the heartbeat, within one sweep period.
NextBeat == SessionStep(Pair) \/ Heartbeat \/ \E s \in Pair : OnPong(s)

SpecBeat == Init /\ [][NextBeat]_vars

\* The sender's callbacks but for the backpressure timer.
SenderStep ==
  \/ \E n \in Calls, secure \in BOOLEAN : ReaderOnload(n, secure)
  \/ \E n \in Calls, ok \in BOOLEAN : HashSettled(n, ok)
  \/ \E n \in Calls : sendNextFile(n)

\* A transfer over a reliable ordered channel; the receiver's channel hands
\* over binary messages as ArrayBuffers or as Blobs.
NextTransfer ==
  \/ \E files \in FileSeqs(SmallFiles) : addFiles(files)
  \/ SenderStep
  \/ Deliver
  \/ DeliverBlob
  \/ \E f \in reading : BlobLoaded(f)

SpecTransfer == Init /\ [][NextTransfer]_vars

\* A transfer over a channel that delivers chunk frames twice, as
\* ArrayBuffers.
NextReplay ==
  \/ \E files \in FileSeqs(SmallFiles) : addFiles(files)
  \/ SenderStep
  \/ Deliver
  \/ \E j \in 0..(2 * MaxFiles) : DeliverTwice(j)

SpecReplay == Init /\ [][NextReplay]_vars

\* A transfer over a channel that delivers chunk frames twice, hands over
\* binary messages as ArrayBuffers or as Blobs, and can close; a closed
\* channel delivers no message, a FileReader still loads the Blob it has.
NextAcks ==
  \/ \E files \in FileSeqs(AckedFiles) : addFiles(files)
  \/ SenderStep
  \/ dataChannel = "open" /\ Deliver
  \/ dataChannel = "open" /\ DeliverBlob
  \/ \E f \in reading : BlobLoaded(f)
  \/ dataChannel = "open" /\ \E j \in 0..(2 * MaxFiles) : DeliverTwice(j)
  \/ ChannelClose

SpecAcks == Init /\ [][NextAcks]_vars

\* The receiver with a peer that also sends binary messages of the legacy
\* protocol; the files are the empty one and one of one byte.
NextDrop ==
  \/ \E files \in FileSeqs(DroppedFiles) : addFiles(files)
  \/ SenderStep
  \/ Deliver
  \/ DeliverBlob
  \/ \E f \in reading : BlobLoaded(f)
  \/ \E f \in LegacyFrames : DeliverLegacy(f)

SpecDrop == Init /\ [][NextDrop]_vars

\* The receiver of a sender whose onDataChannelOpen runs again: the frames
\* of the two calls of sendFilesNow arrive interleaved.
NextLifecycle ==
  \/ \E files \in OneFileQueues : addFiles(files)
  \/ SenderStep
  \/ ConnectionConnected
  \/ Deliver

SpecLifecycle == Init /\ [][NextLifecycle]_vars

\* A transfer of one file between pages with or without crypto.subtle; the
\* receiver's channel hands over binary messages as ArrayBuffers or as Blobs.
InitIntegrity == Started /\ randoms = <<>> /\ cryptoSubtle \in BOOLEAN

NextIntegrity ==
  \/ \E files \in OneFileQueues : addFiles(files)
  \/ SenderStep
  \/ Deliver
  \/ DeliverBlob
  \/ \E f \in reading : BlobLoaded(f)

SpecIntegrity == InitIntegrity /\ [][NextIntegrity]_vars

\* The ICE connection states of one peer connection.
NextIce ==
  \/ \E iceState \in IceStates : IceConnectionStateChange(iceState)
  \/ IceRestartTimer

SpecIce == Init /\ [][NextIce]_vars

\* One endpoint that creates or joins a room, and the frames it receives.
NextJoining ==
  \/ createRoom
  \/ \E roomId \in Codes : JoinRoomCall(roomId)
  \/ JoinTimeout
  \/ \E data \in EndpointFrames : SignalingMessage(data)

SpecJoining == Init /\ [][NextJoining]_vars

\* One call of connect(url) and the events of the WebSockets it opens.
NextConnect ==
  \/ ConnectCall
  \/ \E r \in 0..(DefaultRetries - 1) : ConnectRetry(r)
  \/ \E i \in DOMAIN connection.sockets : SocketOpen(i)
  \/ \E i \in DOMAIN connection.sockets : SocketTimeout(i)
  \/ \E i \in DOMAIN connection.sockets : SocketError(i)
  \/ \E i \in DOMAIN connection.sockets, clean \in BOOLEAN :
       SocketClose(i, clean)

SpecConnect == Init /\ [][NextConnect]_vars

\* The sender on a channel that never drains.
NextBackpressure ==
  \/ \E files \in FileSeqs(BigFiles) : addFiles(files)
  \/ SenderStep
  \/ \E n \in Calls : RetryTimer(n)

SpecBackpressure == Init /\ [][NextBackpressure]_vars

\* The sender when onDataChannelOpen runs again; the channel delivers nothing
\* meanwhile, so that chan holds every frame enqueued, in order.
NextReentry ==
  \/ \E files \in FileSeqs(QueuedFiles) : addFiles(files)
  \/ SenderStep
  \/ ConnectionConnected

SpecReentry == Init /\ [][NextReentry]_vars

\* The sender on a data channel that closes at any moment.
NextClosing ==
  \/ \E files \in FileSeqs(SmallFiles) : addFiles(files)
  \/ SenderStep
  \/ ChannelClose

SpecClosing == Init /\ [][NextClosing]_vars

\* The same with the callbacks the browser owes the sender run in the end:
\* a FileReader that was started loads, a checksum promise settles, a timer
\* that was set fires.
FairClosing == Init /\ [][NextClosing]_vars /\ WF_vars(SenderStep)

\* The frames of two endpoints after their rooms collided; the callbacks
\* are counted from the collision on.
InitCollided ==
  Collided /\ nmsg = 0 /\ ClientStarted /\ randoms = <<>> /\ cryptoSubtle = TRUE

NextCollided ==
  \/ \E s \in Pair, data \in JoinFrames, c \in Codes : OnJoin(s, data, c)
  \/ \E s \in Pair, data \in SignalFrames : OnSignal(s, data)

SpecCollided == InitCollided /\ [][NextCollided]_vars

\* generateRoomCode on every sequence of random values of Randoms.
InitCode ==
  Started /\ randoms \in [1..CodeLength -> Randoms] /\ cryptoSubtle = TRUE

NextCode == Generate

SpecCode == InitCode /\ [][NextCode]_vars

\* The sender on a channel that transmits what is buffered now and then; no
\* frame is handled by the receiver meanwhile, so that chan holds every frame
\* enqueued, in order.
NextSender ==
  \/ \E files \in FileSeqs(SenderFiles) : addFiles(files)
  \/ SenderStep
  \/ \E n \in Calls : RetryTimer(n)
  \/ Transmit

SpecSender == Init /\ [][NextSender]_vars

\* ================================================================ claims
\* The join frame handled by the last callback, when it asked for an
\* existing room.
JoinedExisting(l) == l.op = "join" /\ ~l.data.createNew

\* C1: every room of the table has at most 2 peers in every reachable state,
\* whatever joins, closes and sweeps took place; a join naming a room that
\* has 2 peers adds no third entry.
C1_Capacity == \A c \in DOMAIN rooms : Len(rooms[c].peers) <= 2

\* C1 witness: a join named a room that had 2 peers and was refused.
C1_Witness ==
  /\ JoinedExisting(last)
  /\ last.data.roomId \in DOMAIN rooms
  /\ Len(rooms[last.data.roomId].peers) = 2
  /\ sent[last.s] = <<ErrorFrame("Room is full")>>

\* C2: a joined frame written to a session because another session attached
\* to its room names the role every earlier joined frame named to it.
C2_RoleNeverChanges ==
  [][\A s \in Sessions : \A i \in FramesOf(sent', s, "joined") :
       s # last'.s => rolesSeen[s] \subseteq {sent'[s][i].role}]_vars

\* C3: an offer that arrives while the room has no second peer is buffered;
\* it stays buffered until the next join to the room, a later offer or the
\* room's removal; the session that joins is written joined and then the
\* buffered offer, the offer once and last, and the slot is empty afterwards.
C3_Buffered ==
  (last'.op = "signal" /\ last'.data.type = "offer"
     /\ currentRoom[last'.s] \in DOMAIN rooms
     /\ Len(rooms[currentRoom[last'.s]].peers) < 2)
  => /\ rooms'[currentRoom[last'.s]].pendingOffer = last'.data.offer
     /\ sent' = Quiet

C3_Kept ==
  \A c \in DOMAIN rooms :
    (rooms[c].pendingOffer # Null /\ c \in DOMAIN rooms'
       /\ rooms'[c].pendingOffer # rooms[c].pendingOffer)
    => \/ last'.op = "signal" /\ last'.data.type = "offer"
            /\ currentRoom[last'.s] = c
       \/ JoinedExisting(last') /\ last'.data.roomId = c
       \/ last'.op = "join" /\ last'.data.createNew /\ last'.newRoomId = c

C3_Delivered ==
  (JoinedExisting(last') /\ last'.data.roomId \in DOMAIN rooms
     /\ Len(rooms[last'.data.roomId].peers) < 2
     /\ rooms[last'.data.roomId].pendingOffer # Null)
  => LET fs == sent'[last'.s]
         n == Len(fs)
     IN /\ n >= 2
        /\ fs[n] = [type |-> "offer",
                    offer |-> rooms[last'.data.roomId].pendingOffer]
        /\ \A i \in 1..(n - 1) : fs[i].type = "joined"
        /\ rooms'[last'.data.roomId].pendingOffer = Null

C4_JoinRefused ==
  [][(JoinedExisting(last')
        /\ (last'.data.roomId \notin DOMAIN rooms
              \/ Len(rooms[last'.data.roomId].peers) = 2))
     => /\ Len(sent'[last'.s]) = 1
        /\ sent'[last'.s][1].type = "error"
        /\ \A p \in Sessions \ {last'.s} : sent'[p] = <<>>
        /\ readyState' = readyState
        /\ currentRoom' = currentRoom
        /\ rooms' = rooms]_vars

\* C4 witness: a session attached to a room was refused by another join and
\* is attached as before.
C4_Witness ==
  /\ JoinedExisting(last)
  /\ Len(sent[last.s]) = 1
  /\ sent[last.s][1].type = "error"
  /\ readyState[last.s] = OPEN
  /\ currentRoom[last.s] \in DOMAIN rooms
  /\ currentRoom[last.s] # last.data.roomId

\* C5: every offer the broker writes goes to the second peer of the room and
\* every answer to its first peer; a forwarded offer was sent by the first
\* peer, a forwarded answer by the second, and neither is written back to
\* the session that sent it.
C5_Directed ==
  [][\A p \in Sessions : \A i \in DOMAIN sent'[p] :
       LET f == sent'[p][i] IN
       /\ (f.type = "offer" /\ last'.op = "signal")
            => LET room == rooms[currentRoom[last'.s]] IN
               /\ p # last'.s
               /\ SenderOf(room) = last'.s
               /\ ReceiverOf(room) = p
       /\ (f.type = "offer" /\ last'.op = "join")
            => ReceiverOf(rooms'[last'.data.roomId]) = p
       /\ f.type = "answer"
            => LET room == rooms[currentRoom[last'.s]] IN
               /\ p # last'.s
               /\ ReceiverOf(room) = last'.s
               /\ SenderOf(room) = p]_vars

\* A peer the broker can write to.
Writable(p) == p # Null /\ readyState[p] = OPEN

\* C6: no offer stays buffered in a room whose second position holds a
\* writable peer, and no answer stays buffered in a room whose first
\* position holds a writable peer: the buffered frame has been delivered.
C6_BufferDrained ==
  \A c \in DOMAIN rooms :
    /\ rooms[c].pendingOffer # Null => ~Writable(ReceiverOf(rooms[c]))
    /\ rooms[c].pendingAnswer # Null => ~Writable(SenderOf(rooms[c]))

\* C7: each pending slot holds one frame or none; an offer or answer is
\* written either by the callback that received it or by a join that takes
\* it from the slot of a room of the table and leaves that slot empty; the
\* callbacks that remove a room write no offer and no answer, and a room
\* that enters the table has both slots empty.
C7_Slots ==
  \A c \in DOMAIN rooms :
    /\ rooms[c].pendingOffer \in Offers \cup {Null}
    /\ rooms[c].pendingAnswer \in Answers \cup {Null}

C7_Delivery ==
  \A p \in Sessions : \A i \in DOMAIN sent'[p] :
    LET f == sent'[p][i] IN
    f.type \in {"offer", "answer"} =>
      \/ last'.op = "signal" /\ f = last'.data
      \/ /\ JoinedExisting(last')
         /\ f.type = "offer"
         /\ last'.data.roomId \in DOMAIN rooms
         /\ f.offer = rooms[last'.data.roomId].pendingOffer
         /\ rooms'[last'.data.roomId].pendingOffer = Null
         /\ Cardinality({q \in Sessions : FramesOf(sent', q, "offer") # {}}) = 1
         /\ Cardinality(FramesOf(sent', p, "offer")) = 1

C7_NewRoomEmpty ==
  \A c \in DOMAIN rooms' :
    (c \notin DOMAIN rooms \/ (last'.op = "join" /\ last'.newRoomId = c))
    => rooms'[c].pendingOffer = Null /\ rooms'[c].pendingAnswer = Null

C7_BufferDiscipline ==
  [][C7_Slots' /\ C7_Delivery /\ C7_NewRoomEmpty]_vars

\* C7 witness: a join took the buffered offer out of the slot.
C7_Witness ==
  /\ JoinedExisting(last)
  /\ last.data.roomId \in DOMAIN rooms
  /\ rooms[last.data.roomId].pendingOffer = Null
  /\ FramesOf(sent, last.s, "offer") # {}

\* C8 (as stated): every room of the table is at most ROOM_EXPIRY old.
C8_NoRoomOlderThanExpiry ==
  \A c \in DOMAIN rooms : rooms[c].createdAt >= now - ROOM_EXPIRY

\* C8 (amended): every room of the table is at most ROOM_EXPIRY plus one
\* sweep period old, and at most ROOM_EXPIRY old when a sweep has just run.
C8_NoRoomOlderThanExpiryPlusSweep ==
  \A c \in DOMAIN rooms :
    /\ rooms[c].createdAt >= now - (ROOM_EXPIRY + SweepPeriod)
    /\ last.op = "sweep" => rooms[c].createdAt >= now - ROOM_EXPIRY

\* C8 witness: a room older than ROOM_EXPIRY is in the table, the sweep due.
C8_Witness ==
  \E c \in DOMAIN rooms :
    now - rooms[c].createdAt = ROOM_EXPIRY + SweepPeriod /\ now = nextSweep

\* C9: a join that names a room older than ROOM_EXPIRY attaches nobody.
C9_NoJoinAfterExpiry ==
  [][(JoinedExisting(last') /\ last'.data.roomId \in DOMAIN rooms
        /\ now - rooms[last'.data.roomId].createdAt > ROOM_EXPIRY)
     => /\ last'.data.roomId \in DOMAIN rooms'
        /\ rooms'[last'.data.roomId].peers = rooms[last'.data.roomId].peers]_vars

\* C10: a sweep removes every room older than ROOM_EXPIRY and no other; each
\* peer of a removed room whose transport is open is written exactly one
\* room-expired frame and is closed in that sweep, nobody else is written to
\* or closed; no session is ever written room-expired twice.
C10_Teardown ==
  last'.op = "sweep" =>
    LET expired == {c \in DOMAIN rooms : now - rooms[c].createdAt > ROOM_EXPIRY}
        hit == {p \in Sessions : readyState[p] = OPEN /\
                  \E c \in expired : \E i \in DOMAIN rooms[c].peers :
                     rooms[c].peers[i] = p}
    IN /\ DOMAIN rooms' = DOMAIN rooms \ expired
       /\ \A c \in DOMAIN rooms' : rooms'[c] = rooms[c]
       /\ \A p \in hit : /\ sent'[p] = <<[type |-> "room-expired"]>>
                         /\ readyState'[p] = CLOSING
       /\ \A p \in Sessions \ hit : /\ sent'[p] = <<>>
                                    /\ readyState'[p] = readyState[p]

C10_ExpiredOnce ==
  [][C10_Teardown /\ \A s \in Sessions : nExpired'[s] <= 1]_vars

\* C10 witness: a sweep has torn down two rooms that held the same open
\* session, which was written one room-expired frame.
C10_Witness ==
  /\ last.op = "sweep"
  /\ \E s \in Sessions :
       /\ Cardinality({c \in DOMAIN last.expired :
                         \E i \in DOMAIN last.expired[c] :
                            last.expired[c][i] = s}) = 2
       /\ sent[s] = <<[type |-> "room-expired"]>>
       /\ nExpired[s] = 1

\* The rooms whose peers hold session s.
RoomsHolding(tbl, s) ==
  {c \in DOMAIN tbl : \E i \in DOMAIN tbl[c].peers : tbl[c].peers[i] = s}

\* C11: when the close of a session's transport has been handled, the session
\* is among the peers of no room; each open peer that remains in its room was
\* written one peer-disconnected frame; its room is out of the table when no
\* peer remains.
C11_Detached ==
  [][last'.op = "close" =>
       LET s == last'.s
           code == currentRoom[s]
       IN /\ RoomsHolding(rooms', s) = {}
          /\ (code \in DOMAIN rooms /\ code \in DOMAIN rooms')
               => /\ rooms'[code].peers # <<>>
                  /\ \A i \in DOMAIN rooms'[code].peers :
                       LET p == rooms'[code].peers[i] IN
                       readyState[p] = OPEN
                         => sent'[p] = <<[type |-> "peer-disconnected"]>>]_vars

\* C12: a heartbeat tick terminates exactly the sessions of wss.clients that
\* were pinged and have sent no pong since, and pings every other session of
\* wss.clients (the frame reaches those whose transport is open); it closes
\* no other transport, so a session that answers every ping before the next
\* tick is never terminated by the heartbeat.
C12_Tick ==
  last'.op = "heartbeat" =>
    LET clients == {s \in Sessions : readyState[s] \in {OPEN, CLOSING}}
        silent == clients \cap awaiting
    IN /\ last'.terminated = silent
       /\ last'.pinged = clients \ silent
       /\ \A s \in silent : readyState'[s] = CLOSING /\ sent'[s] = <<>>
       /\ \A s \in Sessions \ silent :
            /\ readyState'[s] = readyState[s]
            /\ sent'[s] = IF s \in clients /\ readyState[s] = OPEN
                            THEN <<[type |-> "ping"]>> ELSE <<>>

C12_Heartbeat == [][C12_Tick]_vars

\* C12 witness: a tick has terminated a session that was silent and pinged
\* the other, which had answered the ping of the tick before.
C12_Witness ==
  /\ last.op = "heartbeat"
  /\ last.terminated = {"s1"}
  /\ last.pinged = {"s2"}
  /\ readyState = [s1 |-> CLOSING, s2 |-> OPEN, s3 |-> NONE]
  /\ sent["s2"] = <<[type |-> "ping"]>>
  /\ nbeat = 2

\* C13: a join with createNew puts its room under a code that no room of the
\* table has, and leaves every room that was in the table as it was.
C13_CreateKeepsRooms ==
  [][(last'.op = "join" /\ last'.data.createNew)
     => /\ last'.newRoomId \notin DOMAIN rooms
        /\ \A c \in DOMAIN rooms :
             c \in DOMAIN rooms' /\ rooms'[c] = rooms[c]]_vars

\* C14: a frame whose type is none of join, offer, answer, ice-candidate and
\* ping changes nothing and has no frame written to any session; no frame
\* the broker writes is a chunk or another frame of the file transfer.
C14_OnlySignalingRelayed ==
  [][/\ last'.op \in {"relay", "unknown"}
          => /\ sent' = Quiet
             /\ rooms' = rooms
             /\ readyState' = readyState
             /\ currentRoom' = currentRoom
     /\ \A p \in Sessions : \A i \in DOMAIN sent'[p] :
          sent'[p][i].type \notin {f.type : f \in RelayFrames}]_vars

\* The last callback handled a message that is not a well-formed frame: it
\* is no object with a type, or the fields of its type are missing.
Malformed(l) ==
  \/ l.op = "text"
  \/ l.op = "join" /\ l.data \in BareJoinFrames
  \/ l.op = "signal" /\ l.data \in BareSignalFrames

\* C15: a message that is not a well-formed frame has one error frame written
\* to the session it came from and nothing to any other; that session stays
\* open, and the room table, with the peers and pending slots of every room,
\* and every attachment are as before.
C15_MalformedRefused ==
  [][Malformed(last')
     => /\ Len(sent'[last'.s]) = 1
        /\ sent'[last'.s][1].type = "error"
        /\ \A p \in Sessions \ {last'.s} : sent'[p] = <<>>
        /\ readyState' = readyState
        /\ currentRoom' = currentRoom
        /\ rooms' = rooms]_vars

\* Two texts that differ at most in the case of their letters.
SameUpToCase(a, b) ==
  /\ Len(a) = Len(b)
  /\ \A i \in DOMAIN a : ToLowerChar(a[i]) = ToLowerChar(b[i])

C17_OneTimeCode ==
  [][(JoinedExisting(last') /\ last'.data.roomId \in used)
     => /\ FramesOf(sent', last'.s, "joined") = {}
        /\ rooms'[last'.data.roomId].peers = rooms[last'.data.roomId].peers]_vars

\* The runs of bytes, one after the other, are the bytes pos..size-1 of the
\* k-th file.
RECURSIVE Covers(_, _, _, _)
Covers(blob, k, pos, size) ==
  IF blob = <<>> THEN pos = size
  ELSE LET h == Head(blob) IN
       IF RunLength(h) = 0 THEN Covers(Tail(blob), k, pos, size)
       ELSE h.file = k /\ h.from = pos /\ Covers(Tail(blob), k, h.to, size)

\* Every file the receiver has reassembled has the bytes of the file sent.
OutputsIntact ==
  \A i \in DOMAIN receivedFiles :
    LET out == receivedFiles[i] IN
    /\ out.name \in DOMAIN selectedFiles
    /\ Covers(out.blob, out.name, 0, selectedFiles[out.name].size)

\* C18: over a reliable ordered channel, every file the receiver reassembles
\* on file-complete has exactly the bytes of the file that was sent.
C18_RoundTrip == OutputsIntact

\* The last callback handled a chunk frame the receiver had stored before.
HandledDuplicate ==
  /\ did'.op = "message"
  /\ did'.frame.type = "chunk"
  /\ rcv.currentFile # NoFile
  /\ did'.frame.index \in rcv.receivedChunkIndices

\* C19: a chunk frame that arrives again before the file-complete of its
\* file leaves the receiver as it was (stored chunks, indices, byte count,
\* files delivered), so that every file reassembled has the bytes it has
\* when each chunk frame arrives once: those of the file sent.
C19_ChunkIdempotence ==
  [][/\ HandledDuplicate => rcv' = rcv /\ receivedFiles' = receivedFiles
     /\ OutputsIntact']_vars

\* C19 witness: a file of two chunks has been reassembled after one of its
\* chunk frames had arrived twice.
C19_Witness ==
  /\ nreplay = 1
  /\ receivedFiles # <<>>
  /\ receivedFiles[1].size = 100000
  /\ Len(receivedFiles[1].blob) = 2
  /\ did.op = "message"
  /\ did.frame.type = "file-complete"

\* C20 (as stated): on a channel that never drains, bufferedAmount is at
\* most 1 MiB + CHUNK_SIZE bytes.
C20_BufferBound == bufferedAmount <= BufferLimit + CHUNK_SIZE

\* C20 (amended): on a channel that never drains, a chunk frame is enqueued
\* only while at most 1 MiB is buffered, and bufferedAmount is at most
\* 1 MiB + CHUNK_SIZE + 13 (the chunk frame's header) plus the bytes of the
\* file-complete and file-metadata frames enqueued since the last chunk
\* frame.
C20_BufferBoundWithFraming ==
  [][/\ did'.op = "chunk" => did'.before <= BufferLimit
     /\ bufferedAmount' <= BufferLimit + CHUNK_SIZE + headerSize + unchecked']_vars

\* C20 witness: the sender defers a chunk while more than 1 MiB + CHUNK_SIZE
\* bytes are buffered, the last frame enqueued being a chunk frame.
C20_Witness ==
  /\ phase = "wait"
  /\ unchecked = 0
  /\ bufferedAmount > BufferLimit + CHUNK_SIZE
  /\ bufferedAmount <= BufferLimit + CHUNK_SIZE + headerSize

\* The file a frame of the data channel belongs to.
FileOf(f) ==
  IF f.type = "file-metadata" THEN f.name
  ELSE IF f.type = "chunk" THEN f.data.file ELSE f.fileName

\* C21: the frames of the files never interleave on the data channel: a
\* file-metadata frame is the first frame or follows a file-complete, and
\* every chunk frame and file-complete follows a frame of its own file that
\* is not a file-complete, whatever events call onDataChannelOpen.
C21_NoInterleaving ==
  \A i \in DOMAIN chan :
    LET f == chan[i] IN
    IF f.type = "file-metadata"
      THEN i = 1 \/ chan[i - 1].type = "file-complete"
      ELSE /\ i > 1
           /\ chan[i - 1].type # "file-complete"
           /\ FileOf(chan[i - 1]) = FileOf(f)

\* The number of bytes of a reassembled file.
RECURSIVE BlobLength(_)
BlobLength(blob) ==
  IF blob = <<>> THEN 0 ELSE RunLength(Head(blob)) + BlobLength(Tail(blob))

\* C22: when file-complete is handled while some index below the expected
\* count has no stored chunk, a file of the declared size is delivered, with
\* the stored payload at the position of every stored chunk and zero bytes
\* at the position of every missing one, and onError is called.
C22_ZeroFilled ==
  [][LET f == did'.frame
         n == IF f.totalChunks # 0 THEN f.totalChunks
              ELSE rcv.expectedChunkCount
         size == rcv.currentFile.size
     IN (did'.op = "message" /\ f.type = "file-complete"
           /\ rcv.currentFile # NoFile
           /\ \E i \in 0..(n - 1) : i \notin DOMAIN rcv.chunkMap)
        => /\ Len(receivedFiles') = Len(receivedFiles) + 1
           /\ LET out == receivedFiles'[Len(receivedFiles')] IN
              /\ Len(out.blob) = n
              /\ BlobLength(out.blob) = size
              /\ \A i \in 0..(n - 1) :
                   out.blob[i + 1] =
                     IF i \in DOMAIN rcv.chunkMap THEN rcv.chunkMap[i]
                     ELSE Zeros(Min(CHUNK_SIZE, size - i * CHUNK_SIZE))
           /\ did'.out.error]_vars

\* A callback of call n is about to send a frame of a file: a chunk frame,
\* the file-complete, or the file-metadata of the next file of the queue.
AboutToSend(n) ==
  LET c == IF n = 1 THEN [fileIndex |-> fileIndex, phase |-> phase]
           ELSE [fileIndex |-> second.fileIndex, phase |-> second.phase]
  IN \/ c.phase \in {"read", "hash"}
     \/ c.phase = "pause" /\ c.fileIndex < Len(selectedFiles)

\* C23: when a callback is about to send a frame of a file and the data
\* channel is not open, the send fails with an error shown to the user
\* (sendFile rejects, or sendNextFile reports the lost connection), and no
\* frame is enqueued while the data channel is not open.
C23_ClosedAborts ==
  [][dataChannel # "open" =>
       /\ chan' = chan
       /\ \A n \in {1, 2} :
            (AboutToSend(n) /\ did'.op \notin {"init", "addFiles", "close"}
               /\ did'.call = n)
            => did'.op \in {"reject", "lost"}]_vars

\* The 32 symbols a room code is made of.
Alphabet ==
  {"A", "B", "C", "D", "E", "F", "G", "H", "J", "K", "L", "M", "N", "P", "Q",
   "R", "S", "T", "U", "V", "W", "X", "Y", "Z", "2", "3", "4", "5", "6", "7",
   "8", "9"}

\* C24: every code generateRoomCode returns has exactly six characters, each
\* one of the 32 symbols of the alphabet, none of them I, O, 0 or 1.
C24_CodeAlphabet ==
  generated # Null =>
    /\ Len(generated) = 6
    /\ Cardinality(Alphabet) = 32
    /\ \A i \in DOMAIN generated :
         generated[i] \in Alphabet /\ generated[i] \notin {"I", "O", "0", "1"}

\* C24 witness: a code generated from the least and the greatest random
\* value and two values between them.
C24_Witness ==
  /\ randoms = <<0, 240, 512, 1023, 0, 1023>>
  /\ generated # Null
  /\ generated = <<"A", "H", "S", "9", "A", "9">>

\* C25: the chunk frames of a file are enqueued with the indices 0, 1, ...
\* in this order, each once, every header carrying ceil(size / CHUNK_SIZE)
\* as the total and every payload 1 to CHUNK_SIZE bytes; the file-complete
\* follows the chunk frame of the last index, so that exactly as many chunk
\* frames as the total are enqueued, with or without backpressure deferrals.
C25_ChunkSequence ==
  \A i \in DOMAIN chan :
    LET f == chan[i]
        size == selectedFiles[FileOf(f)].size
        total == (size + CHUNK_SIZE - 1) \div CHUNK_SIZE
    IN /\ f.type = "chunk" =>
            /\ f.totalChunks = total
            /\ f.dataLength = f.data.to - f.data.from
            /\ f.dataLength >= 1 /\ f.dataLength <= CHUNK_SIZE
            /\ i > 1
            /\ IF chan[i - 1].type = "file-metadata" THEN f.index = 0
               ELSE /\ chan[i - 1].type = "chunk"
                    /\ f.index = chan[i - 1].index + 1
       /\ f.type = "file-complete" =>
            /\ f.totalChunks = total
            /\ i > 1
            /\ IF total = 0 THEN chan[i - 1].type = "file-metadata"
               ELSE /\ chan[i - 1].type = "chunk"
                    /\ chan[i - 1].index = total - 1

\* C26: the pending offer of a room changes to an offer only when the offer
\* comes from the first peer of the room (its sender) and the room has no
\* second peer at that moment.
C26_PendingOfferOnlyBeforeReceiver ==
  [][\A c \in DOMAIN rooms' :
       (c \in DOMAIN rooms /\ rooms'[c].pendingOffer # Null
          /\ rooms'[c].pendingOffer # rooms[c].pendingOffer)
       => /\ last'.op = "signal"
          /\ last'.data.type = "offer"
          /\ currentRoom[last'.s] = c
          /\ rooms[c].peers # <<>>
          /\ rooms[c].peers[1] = last'.s
          /\ Len(rooms[c].peers) < 2]_vars

\* C27: an ice-candidate frame is written to every other peer of the room of
\* the session it comes from whose transport is open, and to nobody else;
\* the room table, with the pending slots, is as before; an ice-candidate
\* frame is only ever written by the callback that received it, so that one
\* that found no peer is never written to a session that attaches later.
C27_CandidateNotBuffered ==
  [][/\ (last'.op = "signal" /\ last'.data.type = "ice-candidate")
          => LET s == last'.s
                 c == currentRoom[s]
                 targets ==
                   IF c \notin DOMAIN rooms THEN {}
                   ELSE {p \in Sessions \ {s} :
                           /\ readyState[p] = OPEN
                           /\ \E i \in DOMAIN rooms[c].peers :
                                rooms[c].peers[i] = p}
             IN /\ \A p \in targets : sent'[p] # <<>>
                /\ \A p \in Sessions \ targets : sent'[p] = <<>>
                /\ rooms' = rooms
     /\ \A p \in Sessions : \A i \in DOMAIN sent'[p] :
          sent'[p][i].type = "ice-candidate"
            => last'.op = "signal" /\ last'.data = sent'[p][i]]_vars

\* C27 witness: a session is attached to a room as its second peer; the
\* candidate the first peer sent before was written to nobody.
C27_Witness ==
  /\ last.op = "signal"
  /\ last.data.type = "ice-candidate"
  /\ currentRoom[last.s] \in DOMAIN rooms
  /\ Len(rooms[currentRoom[last.s]].peers) = 1
  /\ sent = Quiet

\* C28: the offer that handleJoin delivers from room.pendingOffer is not
\* written to a session to which the broker has already written a frame that
\* the offer's sender sent after the offer; frames forwarded in-line are
\* written by the callback that received them, in the order of arrival.
C28_SenderOrder ==
  [][last'.op = "join" /\ last'.data.roomId \in DOMAIN later
       => \A p \in Sessions :
            FramesOf(sent', p, "offer") # {}
              => p \notin later[last'.data.roomId].to]_vars

\* A chunk frame that handleChunkWithSequence does not drop is handled:
\* a file is active and the frame's index is below its totalChunks.
ValidChunkHandled ==
  /\ did'.op = "message"
  /\ did'.frame.type = "chunk"
  /\ rcv.currentFile # NoFile
  /\ did'.frame.index < did'.frame.totalChunks

\* The receiver's state after a valid chunk frame: an index received before
\* changes nothing, a new one is stored with its payload and counted once.
StoredOnce ==
  LET f == did'.frame IN
  IF f.index \in rcv.receivedChunkIndices THEN rcv' = rcv
  ELSE /\ rcv'.receivedChunkIndices = rcv.receivedChunkIndices \cup {f.index}
       /\ DOMAIN rcv'.chunkMap = DOMAIN rcv.chunkMap \cup {f.index}
       /\ rcv'.chunkMap[f.index] = ChunkData(f)
       /\ \A i \in DOMAIN rcv.chunkMap : rcv'.chunkMap[i] = rcv.chunkMap[i]
       /\ rcv'.bytesTransferred =
            rcv.bytesTransferred + RunLength(ChunkData(f))
       /\ rcv'.currentFile = rcv.currentFile

C30_Dropped ==
  [][(/\ did'.op = "message"
      /\ did'.frame.type \in {"chunk", "binary"}
      /\ \/ rcv.currentFile = NoFile
         \/ /\ did'.frame.type = "chunk"
            /\ did'.frame.index >= did'.frame.totalChunks)
       => /\ rcv' = rcv
          /\ receivedFiles' = receivedFiles
          /\ did'.out.acks = <<>>]_vars

\* C30 witness: the chunk frame of an empty file (index 0 of 0 chunks) has
\* been dropped while its file was active.
C30_Witness ==
  /\ did.op = "message"
  /\ did.frame.type = "chunk"
  /\ did.frame.index >= did.frame.totalChunks
  /\ rcv.currentFile # NoFile
  /\ DOMAIN rcv.chunkMap = {}
  /\ rcv.bytesTransferred = 0
  /\ did.out.acks = <<>>

\* C31: a file-complete handled while a file is active appends exactly one
\* file, that of the current file, to receivedFiles and leaves the receiver
\* with no current file, no chunks, no received indices and an
\* expectedChunkCount of 0; a file-complete handled while no file is active
\* changes neither the receiver nor receivedFiles.
C31_CompleteReturnsToIdle ==
  [][(did'.op = "message" /\ did'.frame.type = "file-complete")
       => IF rcv.currentFile # NoFile
            THEN /\ Len(receivedFiles') = Len(receivedFiles) + 1
                 /\ SubSeq(receivedFiles', 1, Len(receivedFiles))
                      = receivedFiles
                 /\ receivedFiles'[Len(receivedFiles')].name
                      = rcv.currentFile.name
                 /\ rcv'.currentFile = NoFile
                 /\ DOMAIN rcv'.chunkMap = {}
                 /\ rcv'.receivedChunks = <<>>
                 /\ rcv'.receivedChunkIndices = {}
                 /\ rcv'.expectedChunkCount = 0
            ELSE rcv' = rcv /\ receivedFiles' = receivedFiles]_vars

\* C31 witness: one file has been delivered and the receiver is idle; the
\* file-complete just handled, of the second call of sendFilesNow, found no
\* file active and delivered nothing.
C31_Witness ==
  /\ did.op = "message"
  /\ did.frame.type = "file-complete"
  /\ rcv.currentFile = NoFile
  /\ Len(receivedFiles) = 1
  /\ Len(selectedFiles) = 1
  /\ chan = <<>>
  /\ phase = "done" /\ second.phase = "done"

\* C32: a file-complete handled while a file is active appends exactly one
\* file to receivedFiles, with the bytes reassembled from the chunks stored
\* and the frame's totalChunks alone: the same whether the frame carries no
\* checksum, the page has no crypto.subtle, the checksum matches or it does
\* not match.
C32_DeliveredWhateverTheChecksum ==
  [][(/\ did'.op = "message"
      /\ did'.frame.type = "file-complete"
      /\ rcv.currentFile # NoFile)
       => /\ did'.out.integrity \in {"none", "skipped", "verified", "failed"}
          /\ receivedFiles' =
               Append(receivedFiles,
                      [name |-> rcv.currentFile.name,
                       size |-> rcv.currentFile.size,
                       blob |-> Reassemble(rcv,
                                  [totalChunks |->
                                     did'.frame.totalChunks])])]_vars

\* C32 witness: the checksum of file-complete did not match the bytes
\* reassembled (the file's only chunk was still being read from its Blob),
\* and the file has been delivered all the same.
C32_Witness ==
  /\ did.op = "message"
  /\ did.frame.type = "file-complete"
  /\ did.frame.checksum
  /\ did.out.integrity = "failed"
  /\ Len(receivedFiles) = 1
  /\ rcv.currentFile = NoFile

\* The positions in chan of the file-complete frames and of the chunk frames
\* of the k-th file.
CompletesOf(k) ==
  {i \in DOMAIN chan : chan[i].type = "file-complete" /\ chan[i].fileName = k}
ChunksOf(k) ==
  {i \in DOMAIN chan : chan[i].type = "chunk" /\ chan[i].data.file = k}

\* Of every file the sender is done with there is one file-complete, with
\* the file's number of chunks, behind all of the file's chunk frames; of
\* the other files there is none.
OneCompleteEach ==
  \A k \in DOMAIN selectedFiles :
    /\ Cardinality(CompletesOf(k)) = IF k <= fileIndex THEN 1 ELSE 0
    /\ \A i \in CompletesOf(k) :
         /\ chan[i].totalChunks = Ceil(selectedFiles[k].size, CHUNK_SIZE)
         /\ ChunksOf(k) # {}
         /\ \A j \in ChunksOf(k) : j < i

\* C33: on an open channel, the callback that ends the sending of a file
\* (the onload of the last chunk where crypto.subtle is missing, the then
\* or the catch of calculateFileChecksum elsewhere) enqueues one
\* file-complete behind everything enqueued before, with totalChunks, and
\* with a checksum only where the hash succeeded; every file done with has
\* exactly one file-complete, behind all its chunk frames.
C33_CompleteInEveryCase ==
  [][/\ (did'.op \in {"chunk", "complete"}
           /\ did'.hash \in {"unavailable", "failed", "succeeded"})
          => /\ Len(chan') > 0
             /\ LET done == chan'[Len(chan')]
                    before == SubSeq(chan', 1, Len(chan') - 1)
                IN /\ done.type = "file-complete"
                   /\ done.fileName = fileIndex + 1
                   /\ done.totalChunks =
                        Ceil(selectedFiles[fileIndex + 1].size, CHUNK_SIZE)
                   /\ done.checksum = (did'.hash = "succeeded")
                   /\ before = IF did'.op = "chunk"
                                 THEN Append(chan, did'.frame) ELSE chan
                   /\ fileIndex' = fileIndex + 1
     /\ OneCompleteEach']_vars

\* C33 witness: two files have been sent, the first one where the hash
\* failed, the second one where it succeeded; each has its file-complete,
\* the second one alone with a checksum.
C33_Witness ==
  /\ Len(selectedFiles) = 2
  /\ fileIndex = 2
  /\ did.op = "complete" /\ did.hash = "succeeded"
  /\ \E i, j \in DOMAIN chan :
       /\ i < j
       /\ chan[i].type = "file-complete" /\ ~chan[i].checksum
       /\ chan[j].type = "file-complete" /\ chan[j].checksum
       /\ j = Len(chan)

\* The handler has just run for the state "failed".
IceFailed == ice'.events = ice.events + 1 /\ ice'.lastIceState = "failed"

C35_HandlerRestored ==
  [][(/\ signaling'.frames = signaling.frames + 1
      /\ signaling.promise \in {"resolved", "rejected"})
       => /\ signaling'.by = "original"
          /\ signaling'.roomId = signaling.roomId
          /\ signaling'.role = signaling.role
          /\ signaling'.peerConnection = signaling.peerConnection]_vars

\* The places (room, position) at which s is among the peers.
PlacesOf(s) ==
  {<<c, i>> \in (DOMAIN rooms) \X (1..MAX_ROOM_SIZE) :
     i \in DOMAIN rooms[c].peers /\ rooms[c].peers[i] = s}

\* C36: a session is among the peers of at most one room, and at most once.
C36_OnePlace == \A s \in Sessions : Cardinality(PlacesOf(s)) <= 1

\* C37: every room of the table has at least one peer; when a session's
\* transport has closed, its current room stays in the table exactly if
\* another session is among its peers, and then without the closed one.
C37_NoEmptyRoom ==
  [][/\ \A c \in DOMAIN rooms' : Len(rooms'[c].peers) >= 1
     /\ (last'.op = "close" /\ currentRoom[last'.s] \in DOMAIN rooms)
          => LET s == last'.s
                 c == currentRoom[s]
                 others == {i \in DOMAIN rooms[c].peers :
                              rooms[c].peers[i] # s}
             IN /\ c \in DOMAIN rooms' <=> others # {}
                /\ c \in DOMAIN rooms'
                     => \A i \in DOMAIN rooms'[c].peers :
                          rooms'[c].peers[i] # s]_vars

\* C37 witness: the only peer of a room has closed and the room has left
\* the table with it.
C37_Witness ==
  /\ last.op = "close"
  /\ currentRoom[last.s] # Null
  /\ currentRoom[last.s] \notin DOMAIN rooms
  /\ nExpired[last.s] = 0
  /\ rolesSeen[last.s] # {}

\* C38: one call of connect(url) opens at most 4 WebSockets (the first
\* attempt and 3 retries), and at no time are two of them connecting.
C38_ConnectAttempts ==
  /\ Len(connection.sockets) <= DefaultRetries + 1
  /\ Cardinality({i \in DOMAIN connection.sockets :
                    connection.sockets[i].readyState = "CONNECTING"}) <= 1

\* C39: while the data channel stays open the file queue is sent once: no
\* two file-metadata frames enqueued carry the same file, whatever
\* data-channel open and connection state events fire.
C39_MetadataOnce ==
  \A i, j \in DOMAIN chan :
    (/\ chan[i].type = "file-metadata"
     /\ chan[j].type = "file-metadata"
     /\ chan[i].name = chan[j].name) => i = j

\* The promise of the sendFile call in progress is pending: a slice is being
\* read, a deferred chunk waits for its timer, or the checksum is computed.
SendPending == phase \in {"read", "wait", "hash"}

\* The promise of sendFile has resolved (file-complete enqueued) or
\* rejected, and sendNextFile has taken over.
SendSettled == phase \in {"pause", "failed", "done", "lost"}

\* C40: every sendFile call eventually settles, also when the data channel
\* closes at any point of the send.
C40_SendSettles == SendPending ~> SendSettled

====
